---- MODULE Spec2Model ----
(***************************************************************************)
(* Verification model of the Wall-Measurement repository: the material     *)
(* extraction, pricing and quotation code of                               *)
(* src/app/api/analyze-construction/route.ts and the in-memory session     *)
(* store of src/app/api/process-media/route.ts.                            *)
(*                                                                         *)
(* Strings are TLA+ strings; the character at index i of s is              *)
(* SubSeq(s, i, i).  Numbers are exact decimal fractions                   *)
(* [k |-> "number", n |-> numerator, d |-> power of ten]; the other        *)
(* JavaScript values the code can produce are [k |-> "NaN"],               *)
(* [k |-> "function"] and [k |-> "object"].                                *)
(***************************************************************************)
EXTENDS Integers, Sequences, FiniteSets, TLC

VARIABLES
    text,        \* extractMaterialsFromText: text.split("\n"), the argument's lines
    lineIdx,     \* extractMaterialsFromText: number of lines processed
    materials,   \* extractMaterialsFromText: the local array `materials`
    lineLog,     \* per processed line: which patterns were tried / matched
    extracted,   \* extractMaterialsFromText: Pending, or the returned array v
    call,        \* a call of a pure function: [fn, args]
    ret,         \* the value that call returned, or Pending
    analyze,     \* the analyze-construction POST handler: its position and locals
    sessions,    \* process-media: the Map `sessions`, session id -> SessionData
    now,         \* process-media: the value of Date.now()
    requests,    \* process-media: the POST requests received, each with its position
    deleteLog,   \* process-media: the asset ids handed to deleteAsset, in order
    export,      \* the export-quotation POST handler: its position and locals
    pricing,     \* the openai-pricing POST handler: its position and locals
    chatRoute,   \* the chat GET handler: its position and locals
    client       \* a page (MeasurementAnalyzer or UploadPage): its React state,
                 \* the running startAnalysis and the requests it has sent

extractVars == <<text, lineIdx, materials, lineLog, extracted>>
callVars == <<call, ret>>
analyzeVars == <<analyze>>
sessionVars == <<sessions, now, requests, deleteLog>>
routeVars == <<export, pricing, chatRoute>>
clientVars == <<client>>

vars == <<text, lineIdx, materials, lineLog, extracted, call, ret, analyze,
          sessions, now, requests, deleteLog, export, pricing, chatRoute, client>>

Pending == [k |-> "pending"]

\* ------------------------------------------------------------------------
\* Characters and strings
\* ------------------------------------------------------------------------

Digits == "0123456789"
LowerAlpha == "abcdefghijklmnopqrstuvwxyz"
UpperAlpha == "ABCDEFGHIJKLMNOPQRSTUVWXYZ"

CharAt(s, i) == SubSeq(s, i, i)

Max(a, b) == IF a >= b THEN a ELSE b

InString(c, s) == \E i \in 1..Len(s) : CharAt(s, i) = c

IndexIn(c, s) == CHOOSE i \in 1..Len(s) : CharAt(s, i) = c

CharsOf(s) == {CharAt(s, i) : i \in 1..Len(s)}

DigitChars == CharsOf(Digits)

\* \w is [A-Za-z0-9_]
WordChars == CharsOf(Digits) \cup CharsOf(LowerAlpha) \cup CharsOf(UpperAlpha) \cup {"_"}

IsDigit(c) == c \in DigitChars

IsWordChar(c) == c \in WordChars

\* \s; a line holds no line terminator (the text was split on them)
IsSpace(c) == c = " "

ToLowerChar(c) == IF c \in CharsOf(UpperAlpha) THEN CharAt(LowerAlpha, IndexIn(c, UpperAlpha)) ELSE c

ToUpperChar(c) == IF c \in CharsOf(LowerAlpha) THEN CharAt(UpperAlpha, IndexIn(c, LowerAlpha)) ELSE c

RECURSIVE ToUpperCase(_)
ToUpperCase(s) == IF s = "" THEN "" ELSE ToUpperChar(CharAt(s, 1)) \o ToUpperCase(Tail(s))

RECURSIVE ToLowerCase(_)
ToLowerCase(s) == IF s = "" THEN "" ELSE ToLowerChar(CharAt(s, 1)) \o ToLowerCase(Tail(s))

\* String.prototype.trim
RECURSIVE TrimStart(_)
TrimStart(s) == IF s # "" /\ IsSpace(CharAt(s, 1)) THEN TrimStart(Tail(s)) ELSE s

RECURSIVE TrimEnd(_)
TrimEnd(s) == IF s # "" /\ IsSpace(CharAt(s, Len(s))) THEN TrimEnd(SubSeq(s, 1, Len(s) - 1)) ELSE s

Trim(s) == TrimEnd(TrimStart(s))

\* String.prototype.includes
Includes(s, sub) == \E i \in 1..(Len(s) - Len(sub) + 1) : SubSeq(s, i, i + Len(sub) - 1) = sub

\* ------------------------------------------------------------------------
\* Regular expressions: the backtracking matcher of String.prototype.match
\* for the constructs the three patterns use.  A pattern is a sequence of
\* atoms; an atom is a quantified character class that may belong to a
\* capture group g (0: none), or an optional non-capturing group (?: ... )?.
\* ------------------------------------------------------------------------

\* The character class [-...] of the third pattern: the hyphen.  (In the
\* source file the class also lists three non-ASCII characters, which no
\* line of this model contains.)
DashClass == "-"

ClassHas(cls, c) ==
    CASE cls = "any"   -> TRUE          \* .   (no line terminator in a line)
      [] cls = "space" -> IsSpace(c)    \* \s
      [] cls = "digit" -> IsDigit(c)    \* \d
      [] cls = "word"  -> IsWordChar(c) \* \w
      [] cls = "dash"  -> InString(c, DashClass)
      [] OTHER         -> c = cls       \* a literal character

\* X (exactly one), X+ (greedy), X* (greedy), X+? (lazy)
One(cls, g)      == [t |-> "rep", cls |-> cls, min |-> 1, many |-> FALSE, lazy |-> FALSE, g |-> g]
Plus(cls, g)     == [t |-> "rep", cls |-> cls, min |-> 1, many |-> TRUE,  lazy |-> FALSE, g |-> g]
Star(cls, g)     == [t |-> "rep", cls |-> cls, min |-> 0, many |-> TRUE,  lazy |-> FALSE, g |-> g]
LazyPlus(cls, g) == [t |-> "rep", cls |-> cls, min |-> 1, many |-> TRUE,  lazy |-> TRUE,  g |-> g]
\* (?: sub )?
Opt(sub)         == [t |-> "opt", sub |-> sub]

NoMatch == [ok |-> FALSE]

NoCaps == [g \in 1..3 |-> [s |-> 0, e |-> 0]]

Capture(caps, g, from, to) ==
    IF g = 0 THEN caps
    ELSE [caps EXCEPT ![g] = [s |-> IF @.s = 0 THEN from ELSE @.s, e |-> to]]

\* the number of characters of class cls that s holds from index pos on
RECURSIVE RunLen(_, _, _)
RunLen(s, pos, cls) ==
    IF cls = "any" THEN Max(Len(s) - pos + 1, 0)
    ELSE IF pos <= Len(s) /\ ClassHas(cls, CharAt(s, pos)) THEN 1 + RunLen(s, pos + 1, cls)
    ELSE 0

\* MatchHere: match the atoms against s from index pos on, in the order a
\* backtracking matcher explores: a greedy atom takes the longest run first
\* and gives characters back one by one, a lazy atom starts from the
\* shortest, an optional group is tried before it is skipped.
RECURSIVE MatchHere(_, _, _, _), TryCount(_, _, _, _, _, _, _)
MatchHere(atoms, s, pos, caps) ==
    IF atoms = <<>> THEN [ok |-> TRUE, caps |-> caps]
    ELSE LET a == Head(atoms)
             rest == Tail(atoms)
         IN IF a.t = "opt"
            THEN LET r == MatchHere(a.sub \o rest, s, pos, caps)
                 IN IF r.ok THEN r ELSE MatchHere(rest, s, pos, caps)
            ELSE LET run == RunLen(s, pos, a.cls)
                     m == IF a.many \/ run = 0 THEN run ELSE 1
                 IN IF m < a.min THEN NoMatch
                    ELSE TryCount(a, rest, s, pos, caps, IF a.lazy THEN a.min ELSE m, m)

TryCount(a, rest, s, pos, caps, k, m) ==
    LET r == MatchHere(rest, s, pos + k, Capture(caps, a.g, pos, pos + k))
    IN IF r.ok THEN r
       ELSE IF a.lazy
            THEN (IF k < m THEN TryCount(a, rest, s, pos, caps, k + 1, m) ELSE NoMatch)
            ELSE (IF k > a.min THEN TryCount(a, rest, s, pos, caps, k - 1, m) ELSE NoMatch)

\* the leftmost start index wins
RECURSIVE MatchFrom(_, _, _)
MatchFrom(atoms, s, start) ==
    IF start > Len(s) + 1 THEN NoMatch
    ELSE LET r == MatchHere(atoms, s, start, NoCaps)
         IN IF r.ok THEN r ELSE MatchFrom(atoms, s, start + 1)

\* s.match(pattern): NoMatch for null, else the capture groups m[1..3]
RegexMatch(atoms, s) ==
    LET r == MatchFrom(atoms, s, 1)
    IN IF r.ok
       THEN [ok |-> TRUE, m |-> [g \in 1..3 |-> SubSeq(s, r.caps[g].s, r.caps[g].e - 1)]]
       ELSE NoMatch

\* (\d+(?:\.\d+)?) as capture group g
Quantity(g) == << Plus("digit", g), Opt(<< One(".", g), Plus("digit", g) >>) >>

\* /(.+?):\s*(\d+(?:\.\d+)?)\s*(\w+)/
PatternColon ==
    << LazyPlus("any", 1), One(":", 0), Star("space", 0) >> \o Quantity(2)
        \o << Star("space", 0), Plus("word", 3) >>

\* /(\d+(?:\.\d+)?)\s*(\w+)\s+(?:of\s+)?(.+)/
PatternOf ==
    Quantity(1) \o << Star("space", 0), Plus("word", 2), Plus("space", 0),
                      Opt(<< One("o", 0), One("f", 0), Plus("space", 0) >>),
                      Plus("any", 3) >>

\* /(.+?)\s*[-...]\s*(\d+(?:\.\d+)?)\s*(\w+)/
PatternDash ==
    << LazyPlus("any", 1), Star("space", 0), One("dash", 0), Star("space", 0) >>
        \o Quantity(2) \o << Star("space", 0), Plus("word", 3) >>

\* the array `patterns`, in declaration order
patterns == << PatternColon, PatternOf, PatternDash >>

\* ------------------------------------------------------------------------
\* JavaScript values
\* ------------------------------------------------------------------------

\* the number n/d, d a power of ten, in lowest such terms
RECURSIVE Num(_, _)
Num(n, d) ==
    IF d > 1 /\ n % 10 = 0 THEN Num(n \div 10, d \div 10)
    ELSE [k |-> "number", n |-> n, d |-> d]
\* a string value, where a variable of the code can also hold a non-string
Str(s) == [k |-> "string", s |-> s]
NaN == [k |-> "NaN"]
Undefined == [k |-> "undefined"]

IsNum(v) == v.k = "number"

\* a * b and a + b of JavaScript: NaN when an operand is not a number (a
\* function or an object converts to NaN)
Times(a, b) == IF IsNum(a) /\ IsNum(b) THEN Num(a.n * b.n, a.d * b.d) ELSE NaN

NumPlus(a, b) ==
    IF IsNum(a) /\ IsNum(b)
    THEN LET d == Max(a.d, b.d) IN Num(a.n * (d \div a.d) + b.n * (d \div b.d), d)
    ELSE NaN

\* the own properties every object literal inherits from Object.prototype:
\* obj[key] finds them when obj has no own property `key`
ObjectPrototype ==
    [ constructor |-> [k |-> "function"],
      __proto__ |-> [k |-> "object"],
      hasOwnProperty |-> [k |-> "function"],
      isPrototypeOf |-> [k |-> "function"],
      propertyIsEnumerable |-> [k |-> "function"],
      toLocaleString |-> [k |-> "function"],
      toString |-> [k |-> "function"],
      valueOf |-> [k |-> "function"] ]

\* obj[key] for an object literal obj whose own properties are `own` (a
\* function from strings); key is a JavaScript value and is converted to a
\* string: a function or an object converts to a string that names no property
Lookup(own, key) ==
    IF key.k # "string" THEN Undefined
    ELSE IF key.s \in DOMAIN own THEN own[key.s]
    ELSE IF key.s \in DOMAIN ObjectPrototype THEN ObjectPrototype[key.s]
    ELSE Undefined

\* ToBoolean of the values a lookup can yield
Truthy(v) ==
    CASE v.k = "undefined" -> FALSE
      [] v.k = "null"      -> FALSE
      [] v.k = "NaN"       -> FALSE
      [] v.k = "number"    -> v.n # 0
      [] v.k = "string"    -> v.s # ""
      [] OTHER             -> TRUE

\* the value of a string of decimal digits
RECURSIVE DigitsValue(_)
DigitsValue(s) ==
    IF s = "" THEN 0
    ELSE 10 * DigitsValue(SubSeq(s, 1, Len(s) - 1)) + (IndexIn(CharAt(s, Len(s)), Digits) - 1)

RECURSIVE Pow10(_)
Pow10(e) == IF e = 0 THEN 1 ELSE 10 * Pow10(e - 1)

\* Number.parseFloat of a string of the form \d+(\.\d+)? (what the quantity
\* groups capture)
ParseFloat(s) ==
    IF InString(".", s)
    THEN LET dot == IndexIn(".", s)
             frac == SubSeq(s, dot + 1, Len(s))
         IN Num(DigitsValue(SubSeq(s, 1, dot - 1) \o frac), Pow10(Len(frac)))
    ELSE Num(DigitsValue(s), 1)

\* ------------------------------------------------------------------------
\* analyze-construction/route.ts: the material extractor
\* ------------------------------------------------------------------------

\* .replace(/^\d+\.?\s*/, "")
StripNumbering(s) ==
    LET nd == RunLen(s, 1, "digit")
        afterDot == IF nd + 1 <= Len(s) /\ CharAt(s, nd + 1) = "." THEN nd + 1 ELSE nd
    IN IF nd = 0 THEN s ELSE TrimStart(SubSeq(s, afterDot + 1, Len(s)))

\* .replace(/^[-*...]\s*/, "")  (the class's non-ASCII bullet is outside the
\* model's alphabet)
StripBullet(s) ==
    IF s # "" /\ CharAt(s, 1) \in {"-", "*"} THEN TrimStart(Tail(s)) ELSE s

\* .replace(/:\s*$/, "")
StripTrailingColon(s) ==
    LET t == TrimEnd(s)
    IN IF t # "" /\ CharAt(t, Len(t)) = ":" THEN SubSeq(t, 1, Len(t) - 1) ELSE s

\* .replace(/\b\w/g, (l) => l.toUpperCase())
RECURSIVE TitleCaseFrom(_, _)
TitleCaseFrom(s, i) ==
    IF i > Len(s) THEN ""
    ELSE LET c == CharAt(s, i)
             atBoundary == IsWordChar(c) /\ (i = 1 \/ ~IsWordChar(CharAt(s, i - 1)))
         IN (IF atBoundary THEN ToUpperChar(c) ELSE c) \o TitleCaseFrom(s, i + 1)

TitleCase(s) == TitleCaseFrom(s, 1)

cleanMaterialName(name) ==
    TitleCase(Trim(StripTrailingColon(StripBullet(StripNumbering(name)))))

unitMap ==
    ("pc" :> Str("pieces")) @@ ("pcs" :> Str("pieces")) @@ ("piece" :> Str("pieces"))
    @@ ("each" :> Str("pieces"))
    @@ ("lb" :> Str("lbs")) @@ ("pound" :> Str("lbs")) @@ ("pounds" :> Str("lbs"))
    @@ ("ft" :> Str("feet")) @@ ("foot" :> Str("feet"))
    @@ ("yd" :> Str("yards")) @@ ("yard" :> Str("yards"))
    @@ ("sqft" :> Str("sq ft")) @@ ("square feet" :> Str("sq ft"))
    @@ ("cuft" :> Str("cu ft")) @@ ("cubic feet" :> Str("cu ft"))
    @@ ("cuyd" :> Str("cu yd")) @@ ("cubic yards" :> Str("cu yd"))

\* return unitMap[unit.toLowerCase()] || unit;   (unit is a string)
standardizeUnit(unit) ==
    LET v == Lookup(unitMap, Str(ToLowerCase(unit)))
    IN IF Truthy(v) THEN v ELSE Str(unit)

Zero == Num(0, 1)

\* the fields name, quantity, unit the loop body takes from a match of
\* patterns[p] (p = 2 is "quantity unit of material")
MatchFields(p, m) ==
    IF p = 2
    THEN [name |-> m[3], quantity |-> ParseFloat(m[1]), unit |-> m[2]]
    ELSE [name |-> m[1], quantity |-> ParseFloat(m[2]), unit |-> m[3]]

\* if (name && quantity > 0 && unit)
ValidFields(f) == f.name # "" /\ f.quantity.n > 0 /\ f.unit # ""

NewMaterial(f) ==
    [ name |-> cleanMaterialName(f.name),
      quantity |-> f.quantity,
      unit |-> standardizeUnit(f.unit),
      unitPrice |-> Zero,
      totalPrice |-> Zero ]

\* for (const pattern of patterns) { ... }: the patterns from index p on,
\* tried on the trimmed line; the pushed material if any, and the indices of
\* the patterns that were tried and of those that matched
RECURSIVE TryPatterns(_, _, _, _)
TryPatterns(trimmedLine, p, tried, matched) ==
    IF p > Len(patterns)
    THEN [pushed |-> <<>>, tried |-> tried, matched |-> matched, by |-> 0]
    ELSE LET r == RegexMatch(patterns[p], trimmedLine)
         IN IF r.ok
            THEN LET f == MatchFields(p, r.m)
                 IN IF ValidFields(f)
                    THEN [pushed |-> << NewMaterial(f) >>, tried |-> tried \cup {p},
                          matched |-> matched \cup {p}, by |-> p]
                    ELSE TryPatterns(trimmedLine, p + 1, tried \cup {p}, matched \cup {p})
            ELSE TryPatterns(trimmedLine, p + 1, tried \cup {p}, matched)

\* if (!trimmedLine || trimmedLine.length < 5) continue;
MinLineLength == 5

\* one iteration of `for (const line of lines)`
LoopBody(line) ==
    LET trimmedLine == Trim(line)
    IN IF trimmedLine = "" \/ Len(trimmedLine) < MinLineLength
       THEN [pushed |-> <<>>, tried |-> {}, matched |-> {}, by |-> 0]
       ELSE TryPatterns(trimmedLine, 1, {}, {})

\* return materials.slice(0, 50)
MaterialLimit == 50

\* a slice that keeps the last n elements instead of the first n
SliceKeepsLast(seq, n) == SubSeq(seq, IF Len(seq) < n THEN 1 ELSE Len(seq) - n + 1, Len(seq))

Slice(seq, n) == SubSeq(seq, 1, IF Len(seq) < n THEN Len(seq) ELSE n)

\* ------------------------------------------------------------------------
\* The input domain of the extractor
\* ------------------------------------------------------------------------

\* every string of LineLen characters over Alphabet: a letter, a non-zero
\* digit, zero, the two separators and the space
Alphabet == {"a", "5", "0", ":", "-", " "}

LineLen == 5

RECURSIVE StringsOfLen(_)
StringsOfLen(n) == IF n = 0 THEN {""} ELSE {c \o s : c \in Alphabet, s \in StringsOfLen(n - 1)}

ShortLines == StringsOfLen(LineLen)

\* lines of the kinds the endpoint's upstream model writes
ReportLines ==
    << "Concrete: 12 cu yd",
       "10 pcs of nails",
       "Nails - 2.5 lbs",
       "Concrete: -5 bags",
       "5 bags of cement: 0 kg",
       "1. Plywood: 4 pcs",
       "Steel rebar: 0 lbs",
       "no quantity here",
       "  Paint: 3 gallons  ",
       "Ladder: 1 toString",
       "Drill: 2 constructor",
       "- Wire: 0.5 ft",
       "1.: 5 pcs",
       "Tile: 7.25 sqft",
       "Sand: 0.0 lbs",
       "Item: 12" >>

\* the longest text of the model, in lines
MaxLines == 76

\* the report of length n that starts at report line `first` and goes on
\* through ReportLines cyclically
ReportText(first, n) ==
    [i \in 1..n |-> ReportLines[((first + i - 2) % Len(ReportLines)) + 1]]

\* the texts of the model: the empty text, every one-line text over
\* ShortLines, and every report of at most MaxLines lines
Texts ==
    {<< l >> : l \in ShortLines \cup {""}}
        \cup {ReportText(first, n) : first \in 1..Len(ReportLines), n \in 1..MaxLines}

\* ------------------------------------------------------------------------
\* extractMaterialsFromText, one loop iteration per step.  `text` is
\* text.split("\n"), the lines of the argument.
\* ------------------------------------------------------------------------

\* LoopBody tabulated for the report lines, which a run meets many times
RECURSIVE LoopBodiesFrom(_)
LoopBodiesFrom(i) ==
    IF i > Len(ReportLines) THEN <<>>
    ELSE << LoopBody(ReportLines[i]) >> \o LoopBodiesFrom(i + 1)

ReportLoopBodies == LoopBodiesFrom(1)

LoopBodyOf(line) ==
    IF \E i \in 1..Len(ReportLines) : ReportLines[i] = line
    THEN ReportLoopBodies[CHOOSE i \in 1..Len(ReportLines) : ReportLines[i] = line]
    ELSE LoopBody(line)

\* the array `materials` after the loop over the lines
RECURSIVE EmittedBy(_)
EmittedBy(lines) ==
    IF lines = <<>> THEN <<>> ELSE LoopBodyOf(Head(lines)).pushed \o EmittedBy(Tail(lines))

\* extractMaterialsFromText as a function of the lines of its argument
extractMaterialsFromText(lines) == Slice(EmittedBy(lines), MaterialLimit)

NoLog == [line |-> "", tried |-> {}, matched |-> {}, by |-> 0, pushed |-> <<>>]

\* the parts of the state a specification does not use stay as they are here
ExtractIdle ==
    /\ text = << "" >>
    /\ lineIdx = 0
    /\ materials = <<>>
    /\ lineLog = NoLog
    /\ extracted = Pending

CallsIdle == call = Pending /\ ret = Pending

AnalyzeIdle == analyze = [pc |-> "idle"]

SessionIdle ==
    /\ sessions = [id \in {} |-> 0]
    /\ now = 0
    /\ requests = <<>>
    /\ deleteLog = <<>>

RouteIdle ==
    /\ export = [pc |-> "idle"]
    /\ pricing = [pc |-> "idle"]
    /\ chatRoute = [pc |-> "idle"]

ClientIdle == client = [pc |-> "unmounted"]

ExtractInit ==
    /\ text \in Texts
    /\ lineIdx = 0
    /\ materials = <<>>
    /\ lineLog = NoLog
    /\ extracted = Pending
    /\ CallsIdle
    /\ AnalyzeIdle
    /\ SessionIdle
    /\ RouteIdle
    /\ ClientIdle

ProcessLine ==
    /\ extracted = Pending
    /\ lineIdx < Len(text)
    /\ LET line == text[lineIdx + 1]
           o == LoopBodyOf(line)
       IN /\ lineIdx' = lineIdx + 1
          /\ materials' = materials \o o.pushed
          /\ lineLog' = [line |-> line, tried |-> o.tried, matched |-> o.matched,
                         by |-> o.by, pushed |-> o.pushed]
    /\ UNCHANGED <<text, extracted, callVars, analyzeVars, sessionVars, routeVars, clientVars>>

ReturnMaterials ==
    /\ extracted = Pending
    /\ lineIdx = Len(text)
    /\ extracted' = [k |-> "returned", v |-> Slice(materials, MaterialLimit)]
    /\ UNCHANGED <<text, lineIdx, materials, lineLog, callVars, analyzeVars, sessionVars, routeVars, clientVars>>

ExtractNext == ProcessLine \/ ReturnMaterials

SpecExtract == ExtractInit /\ [][ExtractNext]_vars

\* ------------------------------------------------------------------------
\* Claims about the extractor (checked under SpecExtract)
\* ------------------------------------------------------------------------

Min(a, b) == IF a <= b THEN a ELSE b

SetMin(S) == CHOOSE x \in S : \A y \in S : x <= y

Letters == CharsOf(LowerAlpha) \cup CharsOf(UpperAlpha)

AllLetters(s) == s # "" /\ \A i \in 1..Len(s) : CharAt(s, i) \in Letters

\* C1: on every processed line the first pattern that matches decides the
\* outcome: no pattern declared after it is tried, and a material pushed for
\* the line comes from it.
C1_FirstMatchDecides ==
    lineLog.matched # {} =>
        /\ \A q \in lineLog.tried : q <= SetMin(lineLog.matched)
        /\ lineLog.by \in {0, SetMin(lineLog.matched)}

\* the reading of a line "<name>:<quantity><unit>", name and unit made of
\* letters, the quantity an optional minus sign and digits (possibly none)
StatedQuantity(line) ==
    LET l == Trim(line)
        c == IF InString(":", l) THEN IndexIn(":", l) ELSE 0
        rest == TrimStart(SubSeq(l, c + 1, Len(l)))
        neg == rest # "" /\ CharAt(rest, 1) = "-"
        num == IF neg THEN Tail(rest) ELSE rest
        nd == RunLen(num, 1, "digit")
        unit == TrimStart(SubSeq(num, nd + 1, Len(num)))
    IN IF c >= 2 /\ AllLetters(SubSeq(l, 1, c - 1)) /\ AllLetters(unit)
       THEN [shaped |-> TRUE, neg |-> neg, digits |-> SubSeq(num, 1, nd)]
       ELSE [shaped |-> FALSE]

NonPositiveOrMissing(line) ==
    LET q == StatedQuantity(line)
    IN /\ q.shaped
       /\ \/ q.digits = "" /\ ~q.neg             \* no quantity
          \/ q.digits # "" /\ q.neg              \* a negative quantity
          \/ q.digits # "" /\ DigitsValue(q.digits) = 0

\* C2: a line whose stated quantity is zero, negative or absent yields no
\* material.
C2_NoMaterialForNonPositive ==
    NonPositiveOrMissing(lineLog.line) => lineLog.pushed = <<>>

TwoWordUnits == {"cu yd", "cu ft", "sq ft"}

\* C3: the line "Concrete: 12 <two-word unit>" yields exactly one material,
\* named Concrete, of quantity 12 and with the full unit.
C3_TwoWordUnitKept ==
    \A u \in TwoWordUnits :
        lineLog.line = "Concrete: 12 " \o u =>
            /\ Len(lineLog.pushed) = 1
            /\ lineLog.pushed[1].name = "Concrete"
            /\ lineLog.pushed[1].quantity = Num(12, 1)
            /\ lineLog.pushed[1].unit = Str(u)

\* C4: the returned list has at most 50 materials and is the first 50 (or
\* all, if fewer) of the materials the lines yield, in the order of the lines.
C4_FirstFiftyInOrder ==
    extracted.k = "returned" =>
        LET all == EmittedBy(text)
        IN /\ Len(extracted.v) <= 50
           /\ Len(extracted.v) = Min(Len(all), 50)
           /\ \A i \in 1..Len(extracted.v) : extracted.v[i] = all[i]

\* a text that yields more than 50 materials has been returned from
C4_Witness ==
    /\ extracted.k = "returned"
    /\ Len(EmittedBy(text)) > 50
    /\ Len(extracted.v) = 50

\* ------------------------------------------------------------------------
\* analyze-construction/route.ts: the pricing resolver and the quotation
\* builder
\* ------------------------------------------------------------------------

\* the object literal priceDatabase; Object.keys lists its keys in
\* declaration order (none of them is an array index)
priceDatabase ==
    <<
       [key |-> "concrete", prices |-> ("cu yd" :> Num(120, 1)) @@ ("cu ft" :> Num(45, 10))],
       [key |-> "ready mix concrete", prices |-> ("cu yd" :> Num(120, 1)) @@ ("cu ft" :> Num(45, 10))],
       [key |-> "steel rebar", prices |-> ("lbs" :> Num(75, 100)) @@ ("pieces" :> Num(85, 10))],
       [key |-> "rebar", prices |-> ("lbs" :> Num(75, 100)) @@ ("pieces" :> Num(85, 10))],
       [key |-> "lumber", prices |-> ("pieces" :> Num(85, 10)) @@ ("board ft" :> Num(225, 100))],
       [key |-> "2x4 lumber", prices |-> ("pieces" :> Num(85, 10))],
       [key |-> "2x6 lumber", prices |-> ("pieces" :> Num(125, 10))],
       [key |-> "2x8 lumber", prices |-> ("pieces" :> Num(185, 10))],
       [key |-> "plywood", prices |-> ("pieces" :> Num(35, 1)) @@ ("sq ft" :> Num(125, 100))],
       [key |-> "hammer", prices |-> ("pieces" :> Num(25, 1))],
       [key |-> "drill", prices |-> ("pieces" :> Num(85, 1))],
       [key |-> "saw", prices |-> ("pieces" :> Num(150, 1))],
       [key |-> "circular saw", prices |-> ("pieces" :> Num(180, 1))],
       [key |-> "screwdriver", prices |-> ("pieces" :> Num(15, 1))],
       [key |-> "wrench", prices |-> ("pieces" :> Num(20, 1))],
       [key |-> "pliers", prices |-> ("pieces" :> Num(18, 1))],
       [key |-> "level", prices |-> ("pieces" :> Num(35, 1))],
       [key |-> "measuring tape", prices |-> ("pieces" :> Num(25, 1))],
       [key |-> "nails", prices |-> ("lbs" :> Num(35, 10)) @@ ("pieces" :> Num(5, 100))],
       [key |-> "screws", prices |-> ("lbs" :> Num(42, 10)) @@ ("pieces" :> Num(8, 100))],
       [key |-> "bolts", prices |-> ("pieces" :> Num(125, 100))],
       [key |-> "nuts", prices |-> ("pieces" :> Num(35, 100))],
       [key |-> "washers", prices |-> ("pieces" :> Num(15, 100))],
       [key |-> "drywall", prices |-> ("pieces" :> Num(15, 1)) @@ ("sq ft" :> Num(65, 100))],
       [key |-> "paint", prices |-> ("gallons" :> Num(45, 1)) @@ ("pieces" :> Num(45, 1))],
       [key |-> "tile", prices |-> ("sq ft" :> Num(425, 100)) @@ ("pieces" :> Num(215, 100))],
       [key |-> "insulation", prices |-> ("sq ft" :> Num(12, 10)) @@ ("pieces" :> Num(45, 1))],
       [key |-> "ladder", prices |-> ("pieces" :> Num(125, 1))],
       [key |-> "scaffolding", prices |-> ("pieces" :> Num(85, 1))],
       [key |-> "safety helmet", prices |-> ("pieces" :> Num(25, 1))],
       [key |-> "safety gloves", prices |-> ("pieces" :> Num(12, 1))],
       [key |-> "safety glasses", prices |-> ("pieces" :> Num(8, 1))],
       [key |-> "wire", prices |-> ("feet" :> Num(225, 100)) @@ ("lbs" :> Num(38, 10))],
       [key |-> "electrical wire", prices |-> ("feet" :> Num(225, 100)) @@ ("lbs" :> Num(38, 10))],
       [key |-> "outlet", prices |-> ("pieces" :> Num(85, 10))],
       [key |-> "switch", prices |-> ("pieces" :> Num(65, 10))],
       [key |-> "pipe", prices |-> ("feet" :> Num(48, 10))],
       [key |-> "pvc pipe", prices |-> ("feet" :> Num(48, 10))],
       [key |-> "fitting", prices |-> ("pieces" :> Num(325, 100))],
       [key |-> "valve", prices |-> ("pieces" :> Num(155, 10))]
    >>

fallbackPrices ==
    ("pieces" :> Num(10, 1)) @@ ("lbs" :> Num(25, 10)) @@ ("feet" :> Num(35, 10))
    @@ ("sq ft" :> Num(28, 10)) @@ ("cu ft" :> Num(85, 10)) @@ ("cu yd" :> Num(85, 1))
    @@ ("gallons" :> Num(35, 1))

\* Object.keys(priceDatabase).find((key) =>
\*     materialName.toLowerCase().includes(key.toLowerCase()))
\* as an index into priceDatabase, 0 for undefined
RECURSIVE FindKeyFrom(_, _)
FindKeyFrom(materialName, i) ==
    IF i > Len(priceDatabase) THEN 0
    ELSE IF Includes(ToLowerCase(materialName), ToLowerCase(priceDatabase[i].key)) THEN i
    ELSE FindKeyFrom(materialName, i + 1)

FindKey(materialName) == FindKeyFrom(materialName, 1)

\* getMarketPrice(materialName, unit); unit is the JavaScript value the
\* caller passes
getMarketPrice(materialName, unit) ==
    LET materialKey == FindKey(materialName)
        listed == IF materialKey = 0 THEN Undefined
                  ELSE Lookup(priceDatabase[materialKey].prices, unit)
        fallback == Lookup(fallbackPrices, unit)
    IN IF materialKey # 0 /\ Truthy(listed) THEN listed
       ELSE IF Truthy(fallback) THEN fallback
       ELSE Num(5, 1)

\* getPricingForMaterials
RECURSIVE getPricingForMaterials(_)
getPricingForMaterials(ms) ==
    IF ms = <<>> THEN <<>>
    ELSE LET material == Head(ms)
             unitPrice == getMarketPrice(material.name, material.unit)
         IN << [ name |-> material.name,
                 quantity |-> material.quantity,
                 unit |-> material.unit,
                 unitPrice |-> unitPrice,
                 totalPrice |-> Times(unitPrice, material.quantity) ] >>
            \o getPricingForMaterials(Tail(ms))

\* materials.reduce((sum, m) => sum + m.totalPrice, 0)
RECURSIVE SumTotalPrice(_, _)
SumTotalPrice(ms, sum) ==
    IF ms = <<>> THEN sum ELSE SumTotalPrice(Tail(ms), NumPlus(sum, Head(ms).totalPrice))

\* videoName.replace(/\.[^/.]+$/, ""): drop a final ".ext" that holds
\* neither "/" nor "."
StripExtension(name) ==
    LET dots == {i \in 1..Len(name) : CharAt(name, i) = "."}
        last == IF dots = {} THEN 0 ELSE CHOOSE i \in dots : \A j \in dots : j <= i
    IN IF last # 0 /\ last < Len(name) /\ ~InString("/", SubSeq(name, last + 1, Len(name)))
       THEN SubSeq(name, 1, last - 1)
       ELSE name

\* a quotation whose overhead is taken on the subtotal alone
QuotationOverheadOnSubtotal(ms, videoName, today) ==
    LET subtotal == SumTotalPrice(ms, Zero)
        laborCost == Times(subtotal, Num(6, 10))
        equipmentCost == Times(subtotal, Num(15, 100))
        overhead == Times(subtotal, Num(2, 10))
    IN [ k |-> "quotation", materials |-> ms, subtotal |-> subtotal,
         laborCost |-> laborCost, equipmentCost |-> equipmentCost, overhead |-> overhead,
         totalCost |-> NumPlus(NumPlus(NumPlus(subtotal, laborCost), equipmentCost), overhead),
         projectName |-> IF videoName.k = "string" THEN StripExtension(videoName.s) ELSE "",
         date |-> today ]

\* generateQuotation(materials, videoName); today is what
\* new Date().toLocaleDateString() gives.  videoName.replace raises a
\* TypeError when videoName is undefined or null.
generateQuotation(ms, videoName, today) ==
    LET subtotal == SumTotalPrice(ms, Zero)
        laborCost == Times(subtotal, Num(6, 10))
        equipmentCost == Times(subtotal, Num(15, 100))
        overhead == Times(NumPlus(NumPlus(subtotal, laborCost), equipmentCost), Num(2, 10))
    IN IF videoName.k # "string" THEN [k |-> "throw", error |-> "TypeError"]
       ELSE [ k |-> "quotation", materials |-> ms, subtotal |-> subtotal,
              laborCost |-> laborCost, equipmentCost |-> equipmentCost,
              overhead |-> overhead,
              totalCost |-> NumPlus(NumPlus(NumPlus(subtotal, laborCost), equipmentCost),
                                    overhead),
              projectName |-> StripExtension(videoName.s),
              date |-> today ]

\* ------------------------------------------------------------------------
\* Calls of the pure functions: one call per behaviour, its arguments drawn
\* from the sets below
\* ------------------------------------------------------------------------

\* unit strings: every key of unitMap and other words, each as written, with
\* an initial capital and in capitals
UnitWords ==
    DOMAIN unitMap
        \cup {"pieces", "lbs", "bags", "kg", "cu yd", "unknownunit", "", "x4",
              "constructor", "__proto__", "toString", "valueOf"}

UnitInputs == UNION {{u, TitleCase(u), ToUpperCase(u)} : u \in UnitWords}

PriceNames ==
    {"ready mix concrete", "mystery material", "Concrete", "Steel Rebar", "2x4 lumber",
     "Circular Saw", "Hammer Drill", "PVC Pipe", "Electrical Wire", "Paint",
     "Safety Helmet", "Floor Tile", ""}

PriceUnits ==
    {"cu yd", "cu ft", "pieces", "lbs", "feet", "sq ft", "gallons", "board ft",
     "exotic-unit", "yards", "toString", "constructor"}

\* priced materials for the quotation builder, by their total price
QuoteTotals == {Num(1000, 1), Num(500, 1), Num(250, 1), Num(125, 10), Num(5, 100)}

PricedItem(total) ==
    [name |-> "Item", quantity |-> Num(1, 1), unit |-> Str("pieces"),
     unitPrice |-> total, totalPrice |-> total]

\* the longest material list handed to the quotation builder
MaxQuoteLen == 3

QuoteLists == UNION {[1..n -> {PricedItem(t) : t \in QuoteTotals}] : n \in 0..MaxQuoteLen}

VideoNames == {Str("site.mp4"), Str("walls.final.MP4"), Str("plan")}

Dates == {"11/4/2026"}

Calls ==
    {[fn |-> "standardizeUnit", args |-> << u >>] : u \in UnitInputs}
        \cup {[fn |-> "getMarketPrice", args |-> << n, Str(u) >>] :
                 n \in PriceNames, u \in PriceUnits}
        \cup {[fn |-> "generateQuotation", args |-> << ms, v, d >>] :
                 ms \in QuoteLists, v \in VideoNames, d \in Dates}

CallsInit ==
    /\ call \in Calls
    /\ ret = Pending
    /\ ExtractIdle
    /\ AnalyzeIdle
    /\ SessionIdle
    /\ RouteIdle
    /\ ClientIdle

Returned(v) == [k |-> "returned", v |-> v]

CallStandardizeUnit ==
    /\ ret = Pending
    /\ call.fn = "standardizeUnit"
    /\ ret' = Returned(standardizeUnit(call.args[1]))
    /\ UNCHANGED <<call, extractVars, analyzeVars, sessionVars, routeVars, clientVars>>

CallGetMarketPrice ==
    /\ ret = Pending
    /\ call.fn = "getMarketPrice"
    /\ ret' = Returned(getMarketPrice(call.args[1], call.args[2]))
    /\ UNCHANGED <<call, extractVars, analyzeVars, sessionVars, routeVars, clientVars>>

CallGenerateQuotation ==
    /\ ret = Pending
    /\ call.fn = "generateQuotation"
    /\ ret' = Returned(generateQuotation(call.args[1], call.args[2], call.args[3]))
    /\ UNCHANGED <<call, extractVars, analyzeVars, sessionVars, routeVars, clientVars>>

CallsNext == CallStandardizeUnit \/ CallGetMarketPrice \/ CallGenerateQuotation

SpecCalls == CallsInit /\ [][CallsNext]_vars

\* ------------------------------------------------------------------------
\* Claims about the pure functions (checked under SpecCalls)
\* ------------------------------------------------------------------------

\* the price the claim names: the entry of the earliest-declared keyword
\* that the name contains, else the unit's default, else 5
TabulatedPrice(name, unit) ==
    LET hits == {i \in 1..Len(priceDatabase) :
                    Includes(ToLowerCase(name), ToLowerCase(priceDatabase[i].key))}
        first == SetMin(hits)
    IN IF hits # {} /\ unit \in DOMAIN priceDatabase[first].prices
       THEN priceDatabase[first].prices[unit]
       ELSE IF unit \in DOMAIN fallbackPrices THEN fallbackPrices[unit]
       ELSE Num(5, 1)

\* C5: getMarketPrice returns the entry [k][unit] of the earliest-declared
\* keyword k contained in the name when that entry exists, otherwise the
\* unit's default, otherwise 5 -- for every name and unit.
C5_PriceAsTabulated ==
    (call.fn = "getMarketPrice" /\ ret.k = "returned") =>
        ret.v = TabulatedPrice(call.args[1], call.args[2].s)

\* the same statement for the units that name no property of
\* Object.prototype: it holds
PriceAsTabulatedForPlainUnits ==
    (call.fn = "getMarketPrice" /\ ret.k = "returned"
        /\ call.args[2].s \notin DOMAIN ObjectPrototype) =>
        ret.v = TabulatedPrice(call.args[1], call.args[2].s)

\* the examples of the claim
PriceExamples ==
    /\ getMarketPrice("ready mix concrete", Str("cu yd")) = Num(120, 1)
    /\ getMarketPrice("mystery material", Str("pieces")) = Num(10, 1)
    /\ getMarketPrice("mystery material", Str("exotic-unit")) = Num(5, 1)

\* v as an integer number of 1/10000
Scaled(v) == v.n * (Pow10(4) \div v.d)

Exact(v) == IsNum(v) /\ Pow10(4) % v.d = 0

RECURSIVE ScaledSum(_)
ScaledSum(ms) == IF ms = <<>> THEN 0 ELSE Scaled(Head(ms).totalPrice) + ScaledSum(Tail(ms))

\* C6: subtotal = sum of totalPrice, laborCost = 0.6 subtotal, equipmentCost
\* = 0.15 subtotal, overhead = 0.2 (subtotal + laborCost + equipmentCost),
\* totalCost = the sum of the four; for a subtotal of 1000 these are 600,
\* 150, 350 and 2100.
C6_QuotationArithmetic ==
    (call.fn = "generateQuotation" /\ ret.k = "returned") =>
        LET q == ret.v
            sub == Scaled(q.subtotal)
            lab == Scaled(q.laborCost)
            eqp == Scaled(q.equipmentCost)
            ovh == Scaled(q.overhead)
        IN /\ q.k = "quotation"
           /\ \A v \in {q.subtotal, q.laborCost, q.equipmentCost, q.overhead, q.totalCost} :
                 Exact(v)
           /\ sub = ScaledSum(call.args[1])
           /\ 10 * lab = 6 * sub
           /\ 100 * eqp = 15 * sub
           /\ 10 * ovh = 2 * (sub + lab + eqp)
           /\ Scaled(q.totalCost) = sub + lab + eqp + ovh
           /\ q.subtotal = Num(1000, 1) =>
                 /\ q.laborCost = Num(600, 1)
                 /\ q.equipmentCost = Num(150, 1)
                 /\ q.overhead = Num(350, 1)
                 /\ q.totalCost = Num(2100, 1)

\* a quotation of several materials that sum to 1000 has been built
C6_Witness ==
    /\ call.fn = "generateQuotation"
    /\ ret.k = "returned"
    /\ Len(call.args[1]) >= 2
    /\ ret.v.subtotal = Num(1000, 1)
    /\ ret.v.totalCost = Num(2100, 1)

\* C9: standardizeUnit(u) is the synonym table's canonical unit when the
\* lower-cased u is a key of the table, and u itself otherwise -- for every
\* unit string u.
C9_CanonicalOrUnchanged ==
    (call.fn = "standardizeUnit" /\ ret.k = "returned") =>
        LET u == call.args[1]
        IN ret.v = IF ToLowerCase(u) \in DOMAIN unitMap THEN unitMap[ToLowerCase(u)]
                   ELSE Str(u)

\* the same statement for the strings whose lower case names no property of
\* Object.prototype: it holds
CanonicalOrUnchangedForPlainUnits ==
    (call.fn = "standardizeUnit" /\ ret.k = "returned"
        /\ ToLowerCase(call.args[1]) \notin DOMAIN ObjectPrototype) =>
        LET u == call.args[1]
        IN ret.v = IF ToLowerCase(u) \in DOMAIN unitMap THEN unitMap[ToLowerCase(u)]
                   ELSE Str(u)

\* ------------------------------------------------------------------------
\* analyze-construction/route.ts: the POST handler.  It awaits twice (the
\* two fetches); each action is the code between two awaits.
\* ------------------------------------------------------------------------

Null == [k |-> "null"]

\* the request bodies: sessionId and videoName present or absent; a body
\* that is no JSON makes request.json() raise
AnalyzeBodies ==
    {[k |-> "json", sessionId |-> sid, videoName |-> v] :
        sid \in {Str("session_1"), Str(""), Undefined},
        v \in {Str("site.mp4"), Undefined}}
        \cup {[k |-> "malformed"]}

\* the longest text an upstream model answers with, in lines
MaxAnswerLines == 2

\* what a fetch and the response.json() after it can give: the fetch is
\* rejected (a network failure), the body is no JSON, or it is a JSON object
\* whose content field (data.choices[0].message.content, data.content) is a
\* text or is missing; `ok` tells a 2xx answer from the error object
\* {error: ...} that the called endpoints answer with under a 4xx or 5xx status
FetchOutcomes ==
    {[k |-> "rejected", message |-> "fetch failed"], [k |-> "notJson"],
     [k |-> "json", ok |-> FALSE, content |-> Undefined],
     [k |-> "json", ok |-> TRUE, content |-> Undefined],
     [k |-> "json", ok |-> TRUE, content |-> [k |-> "string", lines |-> << "" >>]]}
        \cup {[k |-> "json", ok |-> TRUE,
               content |-> [k |-> "string", lines |-> ReportText(first, n)]] :
                 first \in 1..Len(ReportLines), n \in 1..MaxAnswerLines}

\* x || "" and x || analysis for a content field x
Text(lines) == [k |-> "string", lines |-> lines]

TextTruthy(x) == x.k = "string" /\ x.lines # << "" >>

\* JSON.stringify of a property value: a function is left out, NaN becomes null
JsonValue(v) ==
    CASE v.k = "function" -> Undefined
      [] v.k = "NaN"      -> Null
      [] OTHER            -> v

JsonMaterial(m) ==
    [name |-> m.name, quantity |-> JsonValue(m.quantity), unit |-> JsonValue(m.unit),
     unitPrice |-> JsonValue(m.unitPrice), totalPrice |-> JsonValue(m.totalPrice)]

\* NextResponse.json(quotation)
JsonQuotation(q) ==
    [ materials |-> [i \in 1..Len(q.materials) |-> JsonMaterial(q.materials[i])],
      subtotal |-> JsonValue(q.subtotal),
      laborCost |-> JsonValue(q.laborCost),
      equipmentCost |-> JsonValue(q.equipmentCost),
      overhead |-> JsonValue(q.overhead),
      totalCost |-> JsonValue(q.totalCost),
      projectName |-> q.projectName,
      date |-> q.date ]

NotCalled == [k |-> "notCalled"]

\* the handler's state also holds `fetched`, what its fetches have given so far

AnalyzeInit ==
    /\ analyze \in {[pc |-> "received", body |-> b] : b \in AnalyzeBodies}
    /\ ExtractIdle
    /\ CallsIdle
    /\ SessionIdle
    /\ RouteIdle
    /\ ClientIdle

AnalyzeDone(body, input, structuredData, pricedMaterials, quotation, status, json) ==
    [pc |-> "done", body |-> body, input |-> input, structuredData |-> structuredData,
     pricedMaterials |-> pricedMaterials, quotation |-> quotation,
     response |-> [status |-> status, json |-> json]]

AnalysisFailed(body) ==
    AnalyzeDone(body, <<>>, <<>>, <<>>, NotCalled, 500, [error |-> "Analysis failed"])

\* const { sessionId, videoName } = await request.json();
\* if (!sessionId) ...; then the fetch of analyzeVideoWithVila is sent
AnalyzeReceive ==
    /\ analyze.pc = "received"
    /\ analyze' =
         (IF analyze.body.k = "malformed" THEN AnalysisFailed(analyze.body)
          ELSE IF ~Truthy(analyze.body.sessionId)
          THEN AnalyzeDone(analyze.body, <<>>, <<>>, <<>>, NotCalled, 400,
                           [error |-> "Session ID required"])
          ELSE [pc |-> "awaitVila", body |-> analyze.body])
         @@ [fetched |-> <<>>]
    /\ UNCHANGED <<extractVars, callVars, sessionVars, routeVars, clientVars>>

\* analyzeVideoWithVila returns data.choices?.[0]?.message?.content || "";
\* then the fetch of processWithLlama is sent
AnalyzeVilaAnswers ==
    /\ analyze.pc = "awaitVila"
    /\ \E o \in FetchOutcomes :
         analyze' =
           (IF o.k # "json" THEN AnalysisFailed(analyze.body)
            ELSE [pc |-> "awaitLlama", body |-> analyze.body,
                  vilaAnalysis |-> IF TextTruthy(o.content) THEN o.content ELSE Text(<< "" >>)])
           @@ [fetched |-> Append(analyze.fetched, o)]
    /\ UNCHANGED <<extractVars, callVars, sessionVars, routeVars, clientVars>>

\* processWithLlama returns extractMaterialsFromText(data.content || analysis);
\* then steps 3 and 4 and the response
AnalyzeLlamaAnswers ==
    /\ analyze.pc = "awaitLlama"
    /\ \E o \in FetchOutcomes, today \in Dates :
         analyze' = [fetched |-> Append(analyze.fetched, o)] @@
           IF o.k # "json" THEN AnalysisFailed(analyze.body)
           ELSE LET input == IF TextTruthy(o.content) THEN o.content ELSE analyze.vilaAnalysis
                    structuredData == extractMaterialsFromText(input.lines)
                    pricedMaterials == getPricingForMaterials(structuredData)
                    quotation == generateQuotation(pricedMaterials, analyze.body.videoName,
                                                   today)
                IN IF quotation.k = "throw"
                   THEN AnalyzeDone(analyze.body, input.lines, structuredData,
                                    pricedMaterials, quotation,
                                    500, [error |-> "Analysis failed"])
                   ELSE AnalyzeDone(analyze.body, input.lines, structuredData,
                                    pricedMaterials, quotation,
                                    200, JsonQuotation(quotation))
    /\ UNCHANGED <<extractVars, callVars, sessionVars, routeVars, clientVars>>

AnalyzeNext == AnalyzeReceive \/ AnalyzeVilaAnswers \/ AnalyzeLlamaAnswers

SpecAnalyze == AnalyzeInit /\ [][AnalyzeNext]_vars

\* ------------------------------------------------------------------------
\* Claims about the analyze-construction endpoint (checked under SpecAnalyze)
\* ------------------------------------------------------------------------

\* the response carries a quotation
QuotationReturned == analyze.pc = "done" /\ analyze.response.status = 200

\* C7: every material of a returned quotation has quantity > 0, unitPrice
\* >= 0 and totalPrice = quantity x unitPrice, and pricing changed nothing of
\* the extracted materials but unitPrice and totalPrice.
C7_MaterialsWellFormed ==
    QuotationReturned =>
        LET sent == analyze.response.json.materials
            from == analyze.structuredData
        IN /\ Len(sent) = Len(from)
           /\ \A i \in 1..Len(sent) :
                 /\ IsNum(sent[i].quantity) /\ sent[i].quantity.n > 0
                 /\ IsNum(sent[i].unitPrice) /\ sent[i].unitPrice.n >= 0
                 /\ sent[i].totalPrice = Times(sent[i].quantity, sent[i].unitPrice)
                 /\ sent[i].name = from[i].name
                 /\ sent[i].quantity = from[i].quantity
                 /\ sent[i].unit = from[i].unit

\* the same statement for the quotations none of whose materials has a unit
\* that names a property of Object.prototype: it holds
MaterialsWellFormedForPlainUnits ==
    (QuotationReturned
        /\ \A i \in 1..Len(analyze.structuredData) :
              LET u == analyze.structuredData[i].unit
              IN u.k = "string" /\ u.s \notin DOMAIN ObjectPrototype) =>
        LET sent == analyze.response.json.materials
            from == analyze.structuredData
        IN /\ Len(sent) = Len(from)
           /\ \A i \in 1..Len(sent) :
                 /\ IsNum(sent[i].quantity) /\ sent[i].quantity.n > 0
                 /\ IsNum(sent[i].unitPrice) /\ sent[i].unitPrice.n >= 0
                 /\ sent[i].totalPrice = Times(sent[i].quantity, sent[i].unitPrice)
                 /\ sent[i].name = from[i].name
                 /\ sent[i].quantity = from[i].quantity
                 /\ sent[i].unit = from[i].unit

\* C8: for every request that passed the validation, with or without a
\* videoName, generateQuotation returns a quotation and does not raise; for
\* an empty material list all five amounts are 0.
C8_QuotationNeverRaises ==
    (analyze.pc = "done" /\ analyze.quotation # NotCalled) =>
        /\ analyze.quotation.k = "quotation"
        /\ analyze.pricedMaterials = <<>> =>
              \A v \in {analyze.quotation.subtotal, analyze.quotation.laborCost,
                        analyze.quotation.equipmentCost, analyze.quotation.overhead,
                        analyze.quotation.totalCost} : v = Zero

\* with a videoName the statement holds
QuotationBuiltWhenVideoNamed ==
    (analyze.pc = "done" /\ analyze.quotation # NotCalled
        /\ analyze.body.videoName.k = "string") =>
        /\ analyze.quotation.k = "quotation"
        /\ analyze.pricedMaterials = <<>> =>
              \A v \in {analyze.quotation.subtotal, analyze.quotation.laborCost,
                        analyze.quotation.equipmentCost, analyze.quotation.overhead,
                        analyze.quotation.totalCost} : v = Zero

\* ------------------------------------------------------------------------
\* The session store and the POST handler of process-media/route.ts
\* ------------------------------------------------------------------------

kSupportedList ==
    [ png  |-> << "image/png", "img" >>,
      jpg  |-> << "image/jpg", "img" >>,
      jpeg |-> << "image/jpeg", "img" >>,
      mp4  |-> << "video/mp4", "video" >> ]

\* path.extname of a name without directories: from the last "." to the
\* end, "" when there is no "." or the only "." is the first character
LastDot(name) ==
    LET dots == {j \in 1..Len(name) : CharAt(name, j) = "."}
    IN IF dots = {} THEN 0 ELSE CHOOSE j \in dots : \A i \in dots : i <= j

extname(name) ==
    IF LastDot(name) <= 1 THEN "" ELSE SubSeq(name, LastDot(name), Len(name))

\* extname(filename).toLowerCase().slice(1)
getExtension(filename) ==
    LET ext == ToLowerCase(extname(filename))
    IN IF ext = "" THEN "" ELSE SubSeq(ext, 2, Len(ext))

\* ext in kSupportedList: the in operator also finds inherited properties
InSupportedList(ext) ==
    ext \in DOMAIN kSupportedList \/ ext \in DOMAIN ObjectPrototype

\* kSupportedList[ext]?.[0] ?? "" and kSupportedList[ext]?.[1] ?? ""
mimeType(ext) == IF ext \in DOMAIN kSupportedList THEN kSupportedList[ext][1] ELSE ""

\* a media type that takes every file for an image
MediaTypeAlwaysImage(ext) == IF ext \in DOMAIN kSupportedList THEN "img" ELSE ""

mediaType(ext) == IF ext \in DOMAIN kSupportedList THEN kSupportedList[ext][2] ELSE ""

RECURSIVE NumberToString(_)
NumberToString(n) ==
    IF n < 10 THEN CharAt(Digits, n + 1)
    ELSE NumberToString(n \div 10) \o CharAt(Digits, (n % 10) + 1)

\* uploadAsset: `dummy_asset_${Date.now()}`
AssetIdAt(t) == "dummy_asset_" \o NumberToString(t)

\* `session_${Date.now()}_${Math.random().toString(36).substr(2, 9)}`
SessionIdAt(t, suffix) == "session_" \o NumberToString(t) \o "_" \o suffix

\* `<${mediaType(ext)} src="data:${mimeType(ext)};asset_id,${assetId}" />`
MediaTag(ext, assetId) ==
    "<" \o mediaType(ext) \o " src=\"data:" \o mimeType(ext) \o ";asset_id,"
        \o assetId \o "\" />"

RECURSIVE Join(_, _)
Join(seq, sep) ==
    IF seq = <<>> THEN ""
    ELSE IF Len(seq) = 1 THEN seq[1]
    ELSE seq[1] \o sep \o Join(Tail(seq), sep)

\* the completion chatWithMediaNvcf returns
ChatCompletion ==
    [choices |-> << [message |-> [role |-> "assistant",
        content |-> "VILA API is currently disabled. This is a placeholder response."]] >>]

NoSessions == [id \in {} |-> 0]

\* sessions.set(id, data), sessions.delete(id), sessions.has(id), sessions.get(id)
MapSet(map, id, data) == [x \in DOMAIN map \cup {id} |-> IF x = id THEN data ELSE map[x]]

MapDelete(map, id) == [x \in DOMAIN map \ {id} |-> map[x]]

MapHas(map, id) == id.k = "string" /\ id.s \in DOMAIN map

MapGet(map, id) == IF MapHas(map, id) THEN map[id.s] ELSE Undefined

\* the requests received in one run, and the largest clock value
MaxRequests == 3

MaxClock == 2

\* the files of an upload: none, one video, two images, an image and a
\* video, a name with an extension that is not supported, and a name whose
\* extension names a property of Object.prototype
FileLists ==
    { <<>>, << "B.MP4" >>, << "a.png", "e.jpeg" >>,
      << "a.png", "B.MP4" >>, << "c.gif" >>, << "d.constructor" >> }

\* Math.random().toString(36).substr(2, 9)
RandomSuffixes == {"k3x9q2m1a", "z8w7v6u5t"}

\* a session id no upload has returned
NeverCreated == Str("session_0_aaaaaaaaa")

NoResponse == [status |-> 0]

\* the session ids the upload responses so far have carried
IssuedIds ==
    {requests[r].response.body.sessionId : r \in
        {q \in 1..Len(requests) : /\ requests[q].pc = "done"
                                  /\ requests[q].req.action = Null
                                  /\ requests[q].response.status = 200}}

Malformed == [k |-> "malformed"]

\* the requests a client can send: an upload, a chat, a cleanup, and one
\* with another action
UploadRequests ==
    {[contentType |-> "multipart/form-data", action |-> Null,
      payload |-> [k |-> "form", files |-> fs]] : fs \in FileLists}

ChatBodies ==
    {[k |-> "json", sessionId |-> Str(id), query |-> Str("How many walls?"),
      stream |-> st] : id \in IssuedIds, st \in BOOLEAN}
        \cup {[k |-> "json", sessionId |-> NeverCreated,
               query |-> Str("How many walls?"), stream |-> FALSE],
              [k |-> "json", sessionId |-> Undefined,
               query |-> Str("How many walls?"), stream |-> FALSE],
              [k |-> "json", sessionId |-> NeverCreated,
               query |-> Undefined, stream |-> FALSE],
              Malformed}

ChatRequests ==
    {[contentType |-> "application/json", action |-> Str("chat"), payload |-> b] :
        b \in ChatBodies}

CleanupBodies ==
    {[k |-> "json", sessionId |-> id] :
        id \in {Str(s) : s \in IssuedIds} \cup {NeverCreated, Undefined}}
        \cup {Malformed}

CleanupRequests ==
    {[contentType |-> "application/json", action |-> Str("cleanup"), payload |-> b] :
        b \in CleanupBodies}

OtherRequests ==
    {[contentType |-> "application/json", action |-> Str("status"),
      payload |-> Malformed]}

SessionInit ==
    /\ sessions = NoSessions
    /\ now = 1
    /\ requests = <<>>
    /\ deleteLog = <<>>
    /\ ExtractIdle
    /\ CallsIdle
    /\ AnalyzeIdle
    /\ RouteIdle
    /\ ClientIdle

JsonResponse(status, body) == [status |-> status, kind |-> "json", body |-> body]

\* the catch of POST: { error: String(error) } with status 500
Caught(error) == JsonResponse(500, [error |-> error])

\* the handler returns the response; loc is what its locals were then
RespondWith(r, loc, response) ==
    requests' = [requests EXCEPT ![r] = [req |-> requests[r].req, pc |-> "done",
                                         loc |-> loc, response |-> response]]

Respond(r, response) == RespondWith(r, requests[r].loc, response)

Goto(r, pc, loc) ==
    requests' = [requests EXCEPT ![r] = [req |-> requests[r].req, pc |-> pc,
                                         loc |-> loc, response |-> NoResponse]]

\* Date.now() advances
Tick ==
    /\ now < MaxClock
    /\ now' = now + 1
    /\ UNCHANGED <<sessions, requests, deleteLog, extractVars, callVars, analyzeVars, routeVars, clientVars>>

\* POST up to its first await: the dispatch on content type and action
Receive ==
    /\ Len(requests) < MaxRequests
    /\ \E req \in UploadRequests \cup ChatRequests \cup CleanupRequests \cup OtherRequests :
         LET arrived(pc) == [req |-> req, pc |-> pc, loc |-> [i |-> 0],
                             response |-> NoResponse]
         IN requests' = Append(requests,
              IF Includes(req.contentType, "multipart/form-data") /\ ~Truthy(req.action)
              THEN arrived("formData")
              ELSE IF req.action = Str("chat") THEN arrived("chatJson")
              ELSE IF req.action = Str("cleanup") THEN arrived("cleanupJson")
              ELSE [req |-> req, pc |-> "done", loc |-> [i |-> 0],
                    response |-> JsonResponse(400, [error |-> "Invalid request"])])
    /\ UNCHANGED <<sessions, now, deleteLog, extractVars, callVars, analyzeVars, routeVars, clientVars>>

\* an upload loop that stores the session before the single-video check
UploadFromStoresFirst(r, i, loc) ==
    LET files == requests[r].req.payload.files
    IN IF i <= Len(files)
       THEN LET ext == getExtension(files[i])
            IN IF ~InSupportedList(ext)
               THEN /\ RespondWith(r, loc,
                          Caught("Error: " \o files[i] \o " format is not supported"))
                    /\ UNCHANGED sessions
               ELSE /\ Goto(r, "uploadAsset",
                            [i |-> i, assetList |-> loc.assetList, extList |-> loc.extList,
                             mediaContent |-> loc.mediaContent,
                             hasVideo |-> loc.hasVideo \/ mediaType(ext) = "video",
                             assetId |-> AssetIdAt(now)])
                    /\ UNCHANGED sessions
       ELSE \E suffix \in RandomSuffixes :
              LET sessionId == SessionIdAt(now, suffix)
              IN /\ sessions' = MapSet(sessions, sessionId,
                       [assetList |-> loc.assetList, extList |-> loc.extList,
                        mediaContent |-> loc.mediaContent, uploadedAt |-> now,
                        hasVideo |-> loc.hasVideo])
                 /\ IF loc.hasVideo /\ Len(files) # 1
                    THEN RespondWith(r, loc, Caught("Error: Only a single video is supported."))
                    ELSE RespondWith(r, [i |-> loc.i, assetList |-> loc.assetList,
                                         extList |-> loc.extList,
                                         mediaContent |-> loc.mediaContent,
                                         hasVideo |-> loc.hasVideo,
                                         createdAt |-> now, suffix |-> suffix],
                           JsonResponse(200,
                              [sessionId |-> sessionId,
                               message |-> "Files uploaded successfully"]))

\* the upload loop from file i on, up to the next await or the response:
\* the extension check, uploadAsset called, and after the last file the
\* single-video check, sessions.set and the response
UploadFrom(r, i, loc) ==
    LET files == requests[r].req.payload.files
    IN IF i <= Len(files)
       THEN LET ext == getExtension(files[i])
            IN IF ~InSupportedList(ext)
               THEN /\ RespondWith(r, loc,
                          Caught("Error: " \o files[i] \o " format is not supported"))
                    /\ UNCHANGED sessions
               ELSE /\ Goto(r, "uploadAsset",
                            [i |-> i, assetList |-> loc.assetList, extList |-> loc.extList,
                             mediaContent |-> loc.mediaContent,
                             hasVideo |-> loc.hasVideo \/ mediaType(ext) = "video",
                             assetId |-> AssetIdAt(now)])
                    /\ UNCHANGED sessions
       ELSE IF loc.hasVideo /\ Len(files) # 1
       THEN /\ RespondWith(r, loc, Caught("Error: Only a single video is supported."))
            /\ UNCHANGED sessions
       ELSE \E suffix \in RandomSuffixes :
              LET sessionId == SessionIdAt(now, suffix)
              IN /\ sessions' = MapSet(sessions, sessionId,
                       [assetList |-> loc.assetList, extList |-> loc.extList,
                        mediaContent |-> loc.mediaContent, uploadedAt |-> now,
                        hasVideo |-> loc.hasVideo])
                 /\ RespondWith(r, [i |-> loc.i, assetList |-> loc.assetList,
                                     extList |-> loc.extList,
                                     mediaContent |-> loc.mediaContent,
                                     hasVideo |-> loc.hasVideo,
                                     createdAt |-> now, suffix |-> suffix],
                       JsonResponse(200,
                          [sessionId |-> sessionId,
                           message |-> "Files uploaded successfully"]))

\* await request.formData() returns
FormDataParsed ==
    \E r \in 1..Len(requests) :
       /\ requests[r].pc = "formData"
       /\ IF Len(requests[r].req.payload.files) = 0
          THEN /\ Respond(r, JsonResponse(400, [error |-> "No media files provided"]))
               /\ UNCHANGED sessions
          ELSE UploadFrom(r, 1, [i |-> 0, assetList |-> <<>>, extList |-> <<>>,
                                 mediaContent |-> "", hasVideo |-> FALSE])
       /\ UNCHANGED <<now, deleteLog, extractVars, callVars, analyzeVars, routeVars, clientVars>>

\* await uploadAsset(...) returns: the pushes, then the loop goes on
UploadAssetReturns ==
    \E r \in 1..Len(requests) :
       /\ requests[r].pc = "uploadAsset"
       /\ LET loc == requests[r].loc
              ext == getExtension(requests[r].req.payload.files[loc.i])
          IN UploadFrom(r, loc.i + 1,
                [i |-> loc.i, assetList |-> Append(loc.assetList, loc.assetId),
                 extList |-> Append(loc.extList, ext),
                 mediaContent |-> loc.mediaContent \o MediaTag(ext, loc.assetId),
                 hasVideo |-> loc.hasVideo])
       /\ UNCHANGED <<now, deleteLog, extractVars, callVars, analyzeVars, routeVars, clientVars>>

\* String(error) of the TypeError of sessionData.assetList on undefined
\* (the wording after the name is the engine's)
AssetListOfUndefined ==
    "TypeError: Cannot read properties of undefined (reading 'assetList')"

\* String(error) when request.json() fails
BodyNotJson == "SyntaxError: Unexpected end of JSON input"

\* await request.json() returns in the chat branch: the two checks,
\* sessions.get(sessionId)! and the call of chatWithMediaNvcf
ChatBodyParsed ==
    \E r \in 1..Len(requests) :
       /\ requests[r].pc = "chatJson"
       /\ LET body == requests[r].req.payload
          IN IF body.k # "json" THEN Respond(r, Caught(BodyNotJson))
             ELSE IF ~Truthy(body.sessionId)
             THEN Respond(r, JsonResponse(400, [error |-> "Invalid or expired session"]))
             ELSE IF ~Truthy(body.query)
             THEN Respond(r, JsonResponse(400, [error |-> "Query is required"]))
             ELSE LET sessionData == MapGet(sessions, body.sessionId)
                  IN IF sessionData = Undefined
                     THEN Goto(r, "chat", [i |-> 0, sessionData |-> sessionData,
                               result |-> [k |-> "rejected",
                                           error |-> AssetListOfUndefined]])
                     ELSE Goto(r, "chat", [i |-> 0, sessionData |-> sessionData,
                               assetSeq |-> Join(sessionData.assetList, ","),
                               result |-> [k |-> "resolved", value |-> ChatCompletion]])
       /\ UNCHANGED <<sessions, now, deleteLog, extractVars, callVars, analyzeVars, routeVars, clientVars>>

\* a chat that looks its session up again when chatWithMediaNvcf has
\* returned, and fails when the store no longer holds it
ChatReturnsChecksSession ==
    \E r \in 1..Len(requests) :
       /\ requests[r].pc = "chat"
       /\ LET result == requests[r].loc.result
          IN IF result.k = "rejected" THEN Respond(r, Caught(result.error))
             ELSE IF ~MapHas(sessions, requests[r].req.payload.sessionId)
             THEN Respond(r, JsonResponse(400, [error |-> "Invalid or expired session"]))
             ELSE IF requests[r].req.payload.stream
             THEN Respond(r, [status |-> 200, kind |-> "text/event-stream",
                              body |-> result.value])
             ELSE Respond(r, JsonResponse(200, result.value))
       /\ UNCHANGED <<sessions, now, deleteLog, extractVars, callVars, analyzeVars, routeVars, clientVars>>

\* await chatWithMediaNvcf(...) returns or raises
ChatReturns ==
    \E r \in 1..Len(requests) :
       /\ requests[r].pc = "chat"
       /\ LET result == requests[r].loc.result
          IN IF result.k = "rejected" THEN Respond(r, Caught(result.error))
             ELSE IF requests[r].req.payload.stream
             THEN Respond(r, [status |-> 200, kind |-> "text/event-stream",
                              body |-> result.value])
             ELSE Respond(r, JsonResponse(200, result.value))
       /\ UNCHANGED <<sessions, now, deleteLog, extractVars, callVars, analyzeVars, routeVars, clientVars>>

\* the cleanup loop from asset i on: deleteAsset called, and after the last
\* asset sessions.delete and the response; loc.failed are the assets whose
\* deletion the catch of the loop has logged
CleanupFrom(r, i, loc) ==
    IF i <= Len(loc.sessionData.assetList)
    THEN /\ deleteLog' = Append(deleteLog, loc.sessionData.assetList[i])
         /\ Goto(r, "deleteAsset",
                 [i |-> i, sessionData |-> loc.sessionData, failed |-> loc.failed])
         /\ UNCHANGED sessions
    ELSE /\ sessions' = MapDelete(sessions, requests[r].req.payload.sessionId.s)
         /\ RespondWith(r, [i |-> i - 1, sessionData |-> loc.sessionData,
                            failed |-> loc.failed],
                        JsonResponse(200, [success |-> TRUE]))
         /\ UNCHANGED deleteLog

\* await request.json() returns in the cleanup branch
CleanupBodyParsed ==
    \E r \in 1..Len(requests) :
       /\ requests[r].pc = "cleanupJson"
       /\ LET body == requests[r].req.payload
          IN IF body.k # "json"
             THEN Respond(r, Caught(BodyNotJson)) /\ UNCHANGED <<sessions, deleteLog>>
             ELSE IF Truthy(body.sessionId) /\ MapHas(sessions, body.sessionId)
             THEN CleanupFrom(r, 1, [sessionData |-> MapGet(sessions, body.sessionId),
                                     failed |-> <<>>])
             ELSE /\ Respond(r, JsonResponse(404, [error |-> "Session not found"]))
                  /\ UNCHANGED <<sessions, deleteLog>>
       /\ UNCHANGED <<now, extractVars, callVars, analyzeVars, routeVars, clientVars>>

\* how the promise of deleteAsset settles.  As written deleteAsset only
\* logs; the remote deletion it stands for (the axios.delete of its
\* commented-out lines) can fail, and the try/catch of the cleanup loop
\* provides for that, so both outcomes are taken
DeleteAssetOutcomes == {"resolved", "rejected"}

\* a cleanup that gives up at the first failed deletion
AfterDeleteAssetGivesUp(r, loc, outcome) ==
    IF outcome = "rejected"
    THEN /\ RespondWith(r, [i |-> loc.i, sessionData |-> loc.sessionData,
                            failed |-> Append(loc.failed, loc.sessionData.assetList[loc.i])],
                        Caught("Error: Asset deletion failed"))
         /\ UNCHANGED <<sessions, deleteLog>>
    ELSE CleanupFrom(r, loc.i + 1, loc)

\* try { await deleteAsset(assetId) } catch (error) { console.error(...) }
\* and the next iteration
AfterDeleteAsset(r, loc, outcome) ==
    CleanupFrom(r, loc.i + 1,
       [sessionData |-> loc.sessionData,
        failed |-> IF outcome = "rejected"
                   THEN Append(loc.failed, loc.sessionData.assetList[loc.i])
                   ELSE loc.failed])

\* await deleteAsset(assetId) returns or raises
DeleteAssetReturns ==
    \E r \in 1..Len(requests) :
       /\ requests[r].pc = "deleteAsset"
       /\ \E outcome \in DeleteAssetOutcomes :
             AfterDeleteAsset(r, requests[r].loc, outcome)
       /\ UNCHANGED <<now, extractVars, callVars, analyzeVars, routeVars, clientVars>>

SessionNext ==
    \/ Tick
    \/ Receive
    \/ FormDataParsed
    \/ UploadAssetReturns
    \/ ChatBodyParsed
    \/ ChatReturns
    \/ CleanupBodyParsed
    \/ DeleteAssetReturns

SpecSession == SessionInit /\ [][SessionNext]_vars

\* ------------------------------------------------------------------------
\* Claims about the session store (checked under SpecSession)
\* ------------------------------------------------------------------------

\* a chat request that passed both checks and named a session the store did
\* not hold when it was read
ChatOfMissingSession(r) ==
    /\ requests[r].req.action = Str("chat")
    /\ requests[r].pc = "done"
    /\ "sessionData" \in DOMAIN requests[r].loc
    /\ requests[r].loc.sessionData = Undefined

\* a cleanup request that named a session the store did not hold
CleanupOfMissingSession(r) ==
    /\ requests[r].req.action = Str("cleanup")
    /\ requests[r].pc = "done"
    /\ requests[r].req.payload.k = "json"
    /\ "sessionData" \notin DOMAIN requests[r].loc

\* C10: a chat request that names a session which was removed by cleanup or
\* never created gets a session-not-found outcome, neither a chat completion
\* (status 200) nor an internal error (status 500), and a cleanup of a
\* session that is not in the store reports not found (status 404).
C10_MissingSessionNotFound ==
    \A r \in 1..Len(requests) :
       /\ ChatOfMissingSession(r) => requests[r].response.status \notin {200, 500}
       /\ CleanupOfMissingSession(r) => requests[r].response.status = 404

\* the cleanup half of the statement alone: it holds
CleanupOfMissingSessionNotFound ==
    \A r \in 1..Len(requests) :
       CleanupOfMissingSession(r) => requests[r].response.status = 404

\* a chat request named a session that a cleanup had removed
ChatAfterCleanup ==
    \E r, c \in 1..Len(requests) :
       /\ ChatOfMissingSession(r)
       /\ requests[c].req.action = Str("cleanup")
       /\ requests[c].pc = "done"
       /\ requests[c].response.status = 200
       /\ requests[c].req.payload.sessionId = requests[r].req.payload.sessionId

\* the upload requests that were answered with a session identifier
UploadsAnswered ==
    {r \in 1..Len(requests) : /\ requests[r].pc = "done"
                              /\ requests[r].req.action = Null
                              /\ requests[r].response.status = 200}

\* C11: every session identifier an upload returns differs from every
\* identifier another upload of the run returned.
C11_IdentifiersDistinct ==
    \A r1, r2 \in UploadsAnswered :
       r1 # r2 =>
          requests[r1].response.body.sessionId # requests[r2].response.body.sessionId

\* identifiers made at different clock values, or with different random
\* suffixes, differ: this holds
IdentifiersDistinctUnlessSameInstantAndSuffix ==
    \A r1, r2 \in UploadsAnswered :
       (r1 # r2 /\ requests[r1].response.body.sessionId
                     = requests[r2].response.body.sessionId) =>
          /\ requests[r1].loc.createdAt = requests[r2].loc.createdAt
          /\ requests[r1].loc.suffix = requests[r2].loc.suffix

\* two uploads were answered with the same identifier and the store holds
\* one session for both
TwoUploadsOneSession ==
    \E r1, r2 \in UploadsAnswered :
       /\ r1 < r2
       /\ requests[r1].response.body.sessionId = requests[r2].response.body.sessionId
       /\ requests[r1].response.body.sessionId \in DOMAIN sessions

\* the extensions kSupportedList lists as video
IsVideoExt(ext) == ext \in DOMAIN kSupportedList /\ kSupportedList[ext][2] = "video"

\* the upload requests that have been answered
UploadsDone ==
    {r \in 1..Len(requests) : /\ requests[r].pc = "done"
                              /\ requests[r].req.action = Null}

\* an upload of several files one of which is a video
SeveralFilesWithVideo(r) ==
    LET files == requests[r].req.payload.files
    IN Len(files) > 1 /\ \E i \in 1..Len(files) : IsVideoExt(getExtension(files[i]))

\* C12: every stored session holds at most one video asset, a session with
\* hasVideo true has exactly one asset, and an upload of several files that
\* includes a video is never answered with a session.
C12_AtMostOneVideo ==
    /\ \A id \in DOMAIN sessions :
          LET sd == sessions[id]
          IN /\ Len(sd.assetList) = Len(sd.extList)
             /\ Cardinality({i \in 1..Len(sd.extList) : IsVideoExt(sd.extList[i])}) <= 1
             /\ sd.hasVideo = (\E i \in 1..Len(sd.extList) : IsVideoExt(sd.extList[i]))
             /\ sd.hasVideo => Len(sd.assetList) = 1
    /\ \A r \in UploadsDone :
          SeveralFilesWithVideo(r) => requests[r].response.status # 200

\* the store holds a video session and a two-file upload with a video was
\* turned down
C12_Witness ==
    /\ \E id \in DOMAIN sessions : sessions[id].hasVideo
    /\ \E r \in UploadsDone : SeveralFilesWithVideo(r) /\ requests[r].response.status = 500

\* an upload that the stated validation turns down: no file, a file whose
\* extension is not png, jpg, jpeg or mp4, or several files with a video
FailsUploadValidation(r) ==
    LET files == requests[r].req.payload.files
    IN \/ Len(files) = 0
       \/ \E i \in 1..Len(files) : getExtension(files[i]) \notin {"png", "jpg", "jpeg", "mp4"}
       \/ SeveralFilesWithVideo(r)

\* C13: an upload request that fails validation is answered with HTTP 400
\* and an error message.
C13_InvalidUploadIs400 ==
    \A r \in UploadsDone :
       FailsUploadValidation(r) =>
          /\ requests[r].response.status = 400
          /\ "error" \in DOMAIN requests[r].response.body

\* the upload without files is answered with 400: this holds
EmptyUploadIs400 ==
    \A r \in UploadsDone :
       Len(requests[r].req.payload.files) = 0 =>
          /\ requests[r].response.status = 400
          /\ requests[r].response.body = [error |-> "No media files provided"]

\* an upload of a file whose extension is none of the four was answered
\* with a session
UnsupportedFileAccepted ==
    \E r \in UploadsDone :
       /\ FailsUploadValidation(r)
       /\ requests[r].response.status = 200

\* request r is a cleanup of a session the store held, answered in this step
CleanupAnswered(r) ==
    /\ requests[r].req.action = Str("cleanup")
    /\ requests[r].pc = "deleteAsset"
    /\ requests'[r].pc = "done"

\* C14: a cleanup of an existing session is answered with success, whether
\* or not deletions of its assets failed, after a deletion was attempted for
\* every asset, and the session is no longer in the store then.
C14_CleanupBestEffort ==
    [][\A r \in 1..Len(requests) :
          CleanupAnswered(r) =>
             /\ requests'[r].response = JsonResponse(200, [success |-> TRUE])
             /\ requests'[r].loc.i = Len(requests[r].loc.sessionData.assetList)
             /\ requests[r].req.payload.sessionId.s \notin DOMAIN sessions']_vars

\* a cleanup of a session of two assets was answered after both deletions
\* had failed
C14_Witness ==
    \E r \in 1..Len(requests) :
       /\ requests[r].req.action = Str("cleanup")
       /\ requests[r].pc = "done"
       /\ requests[r].response.status = 200
       /\ Len(requests[r].loc.failed) = 2
       /\ requests[r].loc.failed = requests[r].loc.sessionData.assetList
       /\ requests[r].req.payload.sessionId.s \notin DOMAIN sessions

\* a chat request takes a step
ChatStep ==
    \E r \in 1..Len(requests) :
       /\ requests[r].req.action = Str("chat")
       /\ requests'[r] # requests[r]

\* the sessions of the store that this step removes or alters
EntriesChanged ==
    {id \in DOMAIN sessions : id \notin DOMAIN sessions' \/ sessions'[id] # sessions[id]}

\* a cleanup that names id is answered with success in this step
CleanupRemoves(id) ==
    \E r \in 1..Len(requests) :
       /\ CleanupAnswered(r)
       /\ requests[r].req.payload.sessionId = Str(id)
       /\ requests'[r].response.status = 200
       /\ id \notin DOMAIN sessions'

\* C15: a stored session is never modified after its creation: a step of a
\* chat request leaves the store as it is, and an entry of the store changes
\* only by being deleted by a cleanup that names it.
C15_SessionsReadOnly ==
    [][/\ ChatStep => sessions' = sessions
       /\ \A id \in EntriesChanged : CleanupRemoves(id)]_vars

\* the chat half of the statement: it holds
ChatLeavesStoreUnchanged == [][ChatStep => sessions' = sessions]_vars

\* an entry changes only by its cleanup or by an upload that was given the
\* identifier of the entry: this holds
EntriesChangeByCleanupOrSameIdentifier ==
    [][\A id \in EntriesChanged :
          \/ CleanupRemoves(id)
          \/ \E r \in 1..Len(requests) :
                /\ requests[r].pc = "uploadAsset"
                /\ requests'[r].pc = "done"
                /\ requests'[r].response.status = 200
                /\ requests'[r].response.body.sessionId = id]_vars


\* ------------------------------------------------------------------------
\* export-quotation/route.ts: the POST handler, one step per await
\* ------------------------------------------------------------------------

\* the decimal digits of n, at least `width` of them
PadDigits(n, width) ==
    IF width = 2 /\ n < 10 THEN "0" \o NumberToString(n) ELSE
    IF width = 3 /\ n < 10 THEN "00" \o NumberToString(n) ELSE
    IF width = 3 /\ n < 100 THEN "0" \o NumberToString(n) ELSE NumberToString(n)

\* n/d rounded to a whole number of 1/scale, ties upwards
RoundTo(v, scale) ==
    IF v.d <= scale THEN v.n * (scale \div v.d)
    ELSE (v.n + (v.d \div scale) \div 2) \div (v.d \div scale)

\* x.toFixed(2): a TypeError unless x is a number; NaN gives "NaN"
toFixed2(v) ==
    CASE v.k = "number" ->
           LET cents == RoundTo(v, 100)
           IN Str(NumberToString(cents \div 100) \o "." \o PadDigits(cents % 100, 2))
      [] v.k = "NaN" -> Str("NaN")
      [] OTHER -> [k |-> "throw", error |-> "TypeError"]

\* the digits of n in groups of three
RECURSIVE Grouped(_)
Grouped(n) ==
    IF n < 1000 THEN NumberToString(n)
    ELSE Grouped(n \div 1000) \o "," \o PadDigits(n % 1000, 3)

\* s without the zeros at its end
RECURSIVE TrimZeros(_)
TrimZeros(s) ==
    IF s # "" /\ CharAt(s, Len(s)) = "0" THEN TrimZeros(SubSeq(s, 1, Len(s) - 1)) ELSE s

\* x.toLocaleString(): grouped digits and at most three decimals for a
\* number, the string itself for a string, a TypeError for undefined and null
toLocaleString(v) ==
    CASE v.k = "number" ->
           LET thousandths == RoundTo(v, 1000)
               decimals == TrimZeros(PadDigits(thousandths % 1000, 3))
           IN Str(Grouped(thousandths \div 1000)
                     \o (IF decimals = "" THEN "" ELSE "." \o decimals))
      [] v.k = "NaN" -> Str("NaN")
      [] v.k = "string" -> v
      [] OTHER -> [k |-> "throw", error |-> "TypeError"]

\* one <tr> of the material table
MaterialRow(material) ==
    [name |-> material.name, quantity |-> material.quantity, unit |-> material.unit,
     unitPrice |-> toFixed2(material.unitPrice),
     totalPrice |-> toFixed2(material.totalPrice)]

\* generateProfessionalHTML(quotation): the document by the values its
\* template interpolates, or the TypeError that an amount without toFixed or
\* toLocaleString raises
generateProfessionalHTML(quotation) ==
    LET rows == [i \in 1..Len(quotation.materials) |-> MaterialRow(quotation.materials[i])]
        amounts == << toLocaleString(quotation.totalCost), toFixed2(quotation.subtotal),
                      toFixed2(quotation.laborCost), toFixed2(quotation.equipmentCost),
                      toFixed2(quotation.overhead), toFixed2(quotation.totalCost) >>
    IN IF \/ \E i \in 1..Len(rows) :
                rows[i].unitPrice.k = "throw" \/ rows[i].totalPrice.k = "throw"
          \/ \E i \in 1..Len(amounts) : amounts[i].k = "throw"
       THEN [k |-> "throw", error |-> "TypeError"]
       ELSE [k |-> "html", projectName |-> quotation.projectName, date |-> quotation.date,
             count |-> Len(rows), amount |-> amounts[1], rows |-> rows,
             subtotal |-> amounts[2], laborCost |-> amounts[3],
             equipmentCost |-> amounts[4], overhead |-> amounts[5],
             totalCost |-> amounts[6]]

\* the quotations of the requests: those the analyze-construction endpoint
\* answers with for a one-line report, and one whose total is missing
ExportQuotations ==
    LET answered == {JsonQuotation(generateQuotation(
                         getPricingForMaterials(extractMaterialsFromText(ReportText(first, 1))),
                         Str("site.mp4"), today)) :
                         first \in 1..Len(ReportLines), today \in Dates}
    IN answered \cup {[q EXCEPT !.totalCost = Undefined] : q \in answered}

\* the request bodies: no JSON, a JSON object without quotation or with a
\* null one, or one with a quotation
ExportBodies ==
    {[k |-> "malformed"], [k |-> "json", quotation |-> Undefined],
     [k |-> "json", quotation |-> Null]}
        \cup {[k |-> "json", quotation |-> [k |-> "object", v |-> q]] : q \in ExportQuotations}

ExportInit ==
    /\ export \in {[pc |-> "received", body |-> b, browser |-> "none", failedAt |-> ""] :
                      b \in ExportBodies}
    /\ pricing = [pc |-> "idle"]
    /\ chatRoute = [pc |-> "idle"]
    /\ ExtractIdle
    /\ CallsIdle
    /\ AnalyzeIdle
    /\ SessionIdle
    /\ ClientIdle

ExportResponse(status, contentType, disposition, body) ==
    [status |-> status, contentType |-> contentType, disposition |-> disposition,
     body |-> body]

ExportDone(response) ==
    export' = [export EXCEPT !.pc = "done"] @@ [response |-> response]

\* the handler goes on to its next await
ExportGoto(pc) == export' = [export EXCEPT !.pc = pc]

\* the outer catch
ExportFailed ==
    ExportResponse(500, "application/json", "", [k |-> "json", error |-> "Export failed"])

\* the inner catch after the step `step` has failed: the HTML document as
\* an attachment, or the outer catch when generating it raises
Fallback(step, t) ==
    LET htmlContent == generateProfessionalHTML(export.body.quotation.v)
    IN export' = [export EXCEPT !.pc = "done", !.failedAt = step] @@
         [response |->
            IF htmlContent.k = "throw" THEN ExportFailed
            ELSE ExportResponse(200, "text/html",
                     "attachment; filename=\"quotation-" \o NumberToString(t) \o ".html\"",
                     htmlContent)]

\* await request.json(); if (!quotation) ...
ExportReceive ==
    /\ export.pc = "received"
    /\ IF export.body.k = "malformed" THEN ExportDone(ExportFailed)
       ELSE IF ~Truthy(export.body.quotation)
       THEN ExportDone(ExportResponse(400, "application/json", "",
                                      [k |-> "json", error |-> "Invalid quotation data"]))
       ELSE ExportGoto("importPuppeteer")
    /\ UNCHANGED <<pricing, chatRoute, extractVars, callVars, analyzeVars, sessionVars, clientVars>>

\* await import("puppeteer")
ExportImportPuppeteer ==
    /\ export.pc = "importPuppeteer"
    /\ \E ok \in BOOLEAN, t \in 1..MaxClock :
         IF ok THEN ExportGoto("launch") ELSE Fallback("importPuppeteer", t)
    /\ UNCHANGED <<pricing, chatRoute, extractVars, callVars, analyzeVars, sessionVars, clientVars>>

\* await puppeteer.default.launch(...)
ExportLaunch ==
    /\ export.pc = "launch"
    /\ \E ok \in BOOLEAN, t \in 1..MaxClock :
         IF ok THEN export' = [export EXCEPT !.pc = "newPage", !.browser = "open"]
         ELSE Fallback("launch", t)
    /\ UNCHANGED <<pricing, chatRoute, extractVars, callVars, analyzeVars, sessionVars, clientVars>>

\* await browser.newPage(); then the argument of page.setContent is
\* evaluated and the call is made
ExportNewPage ==
    /\ export.pc = "newPage"
    /\ \E ok \in BOOLEAN, t \in 1..MaxClock :
         IF ~ok THEN Fallback("newPage", t)
         ELSE IF generateProfessionalHTML(export.body.quotation.v).k = "throw"
         THEN Fallback("generateProfessionalHTML", t)
         ELSE ExportGoto("setContent")
    /\ UNCHANGED <<pricing, chatRoute, extractVars, callVars, analyzeVars, sessionVars, clientVars>>

\* await page.setContent(...)
ExportSetContent ==
    /\ export.pc = "setContent"
    /\ \E ok \in BOOLEAN, t \in 1..MaxClock :
         IF ok THEN ExportGoto("pdf") ELSE Fallback("setContent", t)
    /\ UNCHANGED <<pricing, chatRoute, extractVars, callVars, analyzeVars, sessionVars, clientVars>>

\* await page.pdf(...)
ExportPdf ==
    /\ export.pc = "pdf"
    /\ \E ok \in BOOLEAN, t \in 1..MaxClock :
         IF ok THEN ExportGoto("close") ELSE Fallback("pdf", t)
    /\ UNCHANGED <<pricing, chatRoute, extractVars, callVars, analyzeVars, sessionVars, clientVars>>

\* await browser.close()
ExportClose ==
    /\ export.pc = "close"
    /\ \E ok \in BOOLEAN, t \in 1..MaxClock :
         IF ok THEN export' = [export EXCEPT !.pc = "importStream", !.browser = "closed"]
         ELSE Fallback("close", t)
    /\ UNCHANGED <<pricing, chatRoute, extractVars, callVars, analyzeVars, sessionVars, clientVars>>

\* await import("stream"); then the PDF response
ExportImportStream ==
    /\ export.pc = "importStream"
    /\ \E ok \in BOOLEAN, t \in 1..MaxClock :
         IF ok
         THEN ExportDone(ExportResponse(200, "application/pdf",
                  "attachment; filename=\"quotation-" \o NumberToString(t) \o ".pdf\"",
                  [k |-> "pdf", of |-> generateProfessionalHTML(export.body.quotation.v)]))
         ELSE Fallback("importStream", t)
    /\ UNCHANGED <<pricing, chatRoute, extractVars, callVars, analyzeVars, sessionVars, clientVars>>

ExportNext ==
    \/ ExportReceive
    \/ ExportImportPuppeteer
    \/ ExportLaunch
    \/ ExportNewPage
    \/ ExportSetContent
    \/ ExportPdf
    \/ ExportClose
    \/ ExportImportStream

SpecExport == ExportInit /\ [][ExportNext]_vars

\* ------------------------------------------------------------------------
\* Claims about the export endpoint (checked under SpecExport)
\* ------------------------------------------------------------------------

\* the steps of PDF rendering
RenderingSteps == {"importPuppeteer", "launch", "newPage", "setContent", "pdf"}

IsAttachment(response, contentType) ==
    /\ response.status = 200
    /\ response.contentType = contentType
    /\ SubSeq(response.disposition, 1, 10) = "attachment"

\* every amount of the quotation is a number
AmountsAreNumbers(q) ==
    /\ \A f \in {"subtotal", "laborCost", "equipmentCost", "overhead", "totalCost"} :
         IsNum(q[f])
    /\ \A i \in 1..Len(q.materials) :
         IsNum(q.materials[i].unitPrice) /\ IsNum(q.materials[i].totalPrice)

\* C16: for a request with a quotation, a failure at any step of PDF
\* rendering is answered with the HTML document as a text/html attachment and
\* never with an error response, and a successful rendering is answered with
\* content type application/pdf
C16_RenderingFailureGivesHtml ==
    (export.pc = "done" /\ export.body.k = "json" /\ Truthy(export.body.quotation)) =>
        /\ export.failedAt \in RenderingSteps => IsAttachment(export.response, "text/html")
        /\ export.failedAt = "" => IsAttachment(export.response, "application/pdf")

\* C16, for the quotations whose amounts are all numbers: any failure
\* inside the rendering block is answered with the HTML attachment, a
\* rendering without failure with the PDF
RenderingFailureGivesHtmlForNumericAmounts ==
    (export.pc = "done" /\ export.body.k = "json" /\ Truthy(export.body.quotation)
        /\ AmountsAreNumbers(export.body.quotation.v)) =>
        /\ export.failedAt # "" =>
             /\ IsAttachment(export.response, "text/html")
             /\ export.response.body = generateProfessionalHTML(export.body.quotation.v)
        /\ export.failedAt = "" => IsAttachment(export.response, "application/pdf")

\* C16: the browser failed to launch for a quotation as the analyze endpoint
\* answers it for the unit "toString" (no unit price, null totals), and the
\* answer is the error response
LaunchFailureAnsweredWithError ==
    /\ export.pc = "done"
    /\ export.failedAt = "launch"
    /\ export.response.status = 500
    /\ export.body.quotation.v.totalCost = Null
    /\ \E i \in 1..Len(export.body.quotation.v.materials) :
         export.body.quotation.v.materials[i].unitPrice = Undefined


\* ------------------------------------------------------------------------
\* openai-pricing/route.ts
\* ------------------------------------------------------------------------

\* new Date().toISOString() at the instant t of the model's clock
IsoAt(t) == "1970-01-01T00:00:00.00" \o NumberToString(t) \o "Z"

\* what openai.chat.completions.create can give: it rejects with an Error
\* (no connection; a non-2xx answer of the API, which the client library
\* raises as an error), or it resolves to a completion whose
\* choices[0]?.message?.content is a text or is missing
OpenAIOutcomes ==
    {[k |-> "rejected", message |-> "Connection error."],
     [k |-> "rejected", message |-> "429 You exceeded your current quota"]}
        \cup {[k |-> "resolved", content |-> c] :
                 c \in {Undefined,
                        Str("{\"unitPrice\": 12.5, \"source\": \"Home Depot\", \"lastUpdated\": \"2026-11-01\"}"),
                        Str("Here is the data: {\"unitPrice\": 0}"),
                        Str("The price is $4.50 per foot. Source: Lowes"),
                        Str("about {12 dollars} from: a supplier "),
                        Str("no data")}}

\* JSON.parse, for the texts between braces that the completions of the
\* model hold; any other text raises a SyntaxError
JsonParse(s) ==
    CASE s = "{\"unitPrice\": 12.5, \"source\": \"Home Depot\", \"lastUpdated\": \"2026-11-01\"}" ->
           [k |-> "object", unitPrice |-> Num(125, 10), source |-> Str("Home Depot"),
            lastUpdated |-> Str("2026-11-01"), bulkPricing |-> Undefined]
      [] s = "{\"unitPrice\": 0}" ->
           [k |-> "object", unitPrice |-> Num(0, 1), source |-> Undefined,
            lastUpdated |-> Undefined, bulkPricing |-> Undefined]
      [] OTHER -> [k |-> "throw", error |-> "SyntaxError"]

\* response.match(/\{[\s\S]*\}/): from the first "{" to the last "}" after it
JsonMatch(response) ==
    LET opens == {i \in 1..Len(response) : CharAt(response, i) = "{"}
        first == SetMin(opens)
        closes == {j \in 1..Len(response) : j > first /\ CharAt(response, j) = "}"}
    IN IF opens = {} \/ closes = {} THEN Undefined
       ELSE Str(SubSeq(response, first, CHOOSE j \in closes : \A l \in closes : l <= j))

\* response.match(/\$?(\d+(?:\.\d{2})?)/g)[0]: the leftmost "$" before a
\* digit, or digit; the digits after it; "." and two digits when they follow
PriceMatch(response) ==
    LET n == Len(response)
        digitAt(i) == i <= n /\ IsDigit(CharAt(response, i))
        starts == {i \in 1..n : digitAt(i) \/ (CharAt(response, i) = "$" /\ digitAt(i + 1))}
        start == SetMin(starts)
        from == IF CharAt(response, start) = "$" THEN start + 1 ELSE start
        last == CHOOSE j \in from..n :
                    /\ \A l \in from..j : digitAt(l)
                    /\ ~digitAt(j + 1)
        end == IF last + 3 <= n /\ CharAt(response, last + 1) = "." /\ digitAt(last + 2)
                  /\ digitAt(last + 3)
               THEN last + 3 ELSE last
    IN IF starts = {} THEN Undefined ELSE Str(SubSeq(response, start, end))

\* response.match(/(?:source|supplier|from):\s*([^\n]+)/i)[1]; the texts of
\* the model hold no line terminator
SourceMatch(response) ==
    LET lower == ToLowerCase(response)
        n == Len(response)
        after(i) == CHOOSE l \in {Len(w) : w \in {"source:", "supplier:", "from:"}} :
                        SubSeq(lower, i, i + l - 1) \in {"source:", "supplier:", "from:"}
        starts == {i \in 1..n :
                     \E w \in {"source:", "supplier:", "from:"} :
                        /\ SubSeq(lower, i, Min(n, i + Len(w) - 1)) = w
                        /\ i + Len(w) <= n}
        start == SetMin(starts)
        rest == SubSeq(response, start + after(start), n)
    IN IF starts = {} THEN Undefined
       ELSE Str(IF TrimStart(rest) = "" THEN SubSeq(rest, Len(rest), Len(rest))
                ELSE TrimStart(rest))

\* parsePricingResponse(response) at the instant t
parsePricingResponse(response, t) ==
    LET jsonMatch == JsonMatch(response)
        parsed == IF jsonMatch = Undefined THEN Undefined ELSE JsonParse(jsonMatch.s)
        priceMatch == PriceMatch(response)
        sourceMatch == SourceMatch(response)
    IN IF jsonMatch # Undefined /\ parsed.k = "object"
       THEN [k |-> "object",
             unitPrice |-> IF Truthy(parsed.unitPrice) THEN parsed.unitPrice ELSE Num(0, 1),
             source |-> IF Truthy(parsed.source) THEN parsed.source
                        ELSE Str("Market estimate"),
             lastUpdated |-> IF Truthy(parsed.lastUpdated) THEN parsed.lastUpdated
                             ELSE Str(IsoAt(t)),
             bulkPricing |-> parsed.bulkPricing]
       ELSE [k |-> "object",
             unitPrice |-> IF priceMatch = Undefined THEN Num(0, 1)
                           ELSE ParseFloat(IF CharAt(priceMatch.s, 1) = "$"
                                           THEN Tail(priceMatch.s) ELSE priceMatch.s),
             source |-> IF sourceMatch = Undefined THEN Str("Market estimate")
                        ELSE Str(Trim(sourceMatch.s)),
             lastUpdated |-> Str(IsoAt(t)),
             bulkPricing |-> Undefined]

\* the object literal fallbackPrices of getFallbackPricing
pricingFallbackPrices ==
    <<
       [key |-> "concrete", prices |-> ("cubic yard" :> Num(120, 1)) @@ ("cubic foot" :> Num(45, 10))],
       [key |-> "steel rebar", prices |-> ("lb" :> Num(75, 100)) @@ ("ton" :> Num(1500, 1))],
       [key |-> "lumber", prices |-> ("piece" :> Num(85, 10)) @@ ("board foot" :> Num(225, 100))],
       [key |-> "drywall", prices |-> ("sheet" :> Num(15, 1)) @@ ("square foot" :> Num(65, 100))],
       [key |-> "insulation", prices |-> ("square foot" :> Num(12, 10)) @@ ("roll" :> Num(45, 1))],
       [key |-> "roofing shingles", prices |-> ("square foot" :> Num(35, 10)) @@ ("bundle" :> Num(85, 1))],
       [key |-> "brick", prices |-> ("piece" :> Num(35, 100)) @@ ("thousand" :> Num(350, 1))],
       [key |-> "tile", prices |-> ("square foot" :> Num(425, 100)) @@ ("piece" :> Num(215, 100))]
    >>

\* what the promise of getFallbackPricing(request) settles to at the instant
\* t.  Its first statement is await request.json(): on a request whose body
\* was read before (bodyUsed) that rejects with a TypeError, as it does on a
\* body that is no JSON
getFallbackPricing(body, bodyUsed, t) ==
    IF bodyUsed \/ body.k = "malformed" \/ body.material.k # "string"
    THEN [k |-> "rejected", error |-> "TypeError"]
    ELSE LET keys == {i \in 1..Len(pricingFallbackPrices) :
                         Includes(ToLowerCase(body.material.s),
                                  ToLowerCase(pricingFallbackPrices[i].key))}
             listed == IF keys = {} THEN Undefined
                       ELSE Lookup(pricingFallbackPrices[SetMin(keys)].prices, body.unit)
         IN [k |-> "object",
             unitPrice |-> IF Truthy(listed) THEN listed ELSE Num(0, 1),
             source |-> Str("Estimated market price (fallback)"),
             lastUpdated |-> Str(IsoAt(t))]

\* the request bodies: no JSON, or a JSON object with or without query,
\* material and unit
PricingBodies ==
    {[k |-> "malformed"]}
        \cup {[k |-> "json", query |-> q, material |-> m, unit |-> u, quantity |-> Num(10, 1)] :
                 q \in {Str("current price of the material"), Undefined},
                 m \in {Str("Ready Mix Concrete"), Str("Steel Rebar #4"), Str("Gravel"),
                        Undefined},
                 u \in {Str("cubic yard"), Str("lb"), Undefined}}

PricingInit ==
    /\ pricing \in {[pc |-> "received", body |-> b, bodyUsed |-> FALSE,
                     fallbackPricing |-> NotCalled] : b \in PricingBodies}
    /\ export = [pc |-> "idle"]
    /\ chatRoute = [pc |-> "idle"]
    /\ ExtractIdle
    /\ CallsIdle
    /\ AnalyzeIdle
    /\ SessionIdle
    /\ ClientIdle

\* NextResponse.json(data, {status})
PricingResponse(status, json) == [status |-> status, json |-> json]

\* the catch block: getFallbackPricing(request) is called and not awaited, so
\* fallbackPricing is its pending promise; JSON.stringify of a promise is "{}"
PricingCaught(completion) ==
    pricing' = [pc |-> "done", body |-> pricing.body, bodyUsed |-> TRUE,
                completion |-> completion, fallbackPricing |-> Pending,
                response |-> PricingResponse(200, [k |-> "object"])]

\* await request.json(); if (!query || !material) ...; then the completion
\* is requested
PricingReceive ==
    /\ pricing.pc = "received"
    /\ IF pricing.body.k = "malformed" THEN PricingCaught(NotCalled)
       ELSE IF ~Truthy(pricing.body.query) \/ ~Truthy(pricing.body.material)
       THEN pricing' = [pc |-> "done", body |-> pricing.body, bodyUsed |-> TRUE,
                        completion |-> NotCalled, fallbackPricing |-> NotCalled,
                        response |-> PricingResponse(400,
                            [k |-> "object", error |-> "Query and material are required"])]
       ELSE pricing' = [pricing EXCEPT !.pc = "awaitCompletion", !.bodyUsed = TRUE]
    /\ UNCHANGED <<export, chatRoute, extractVars, callVars, analyzeVars, sessionVars, clientVars>>

\* await openai.chat.completions.create(...), then parsePricingResponse
PricingCompletionAnswers ==
    /\ pricing.pc = "awaitCompletion"
    /\ \E completion \in OpenAIOutcomes, t \in 1..MaxClock :
         IF completion.k = "rejected" THEN PricingCaught(completion)
         ELSE LET responseContent == IF Truthy(completion.content) THEN completion.content.s
                                     ELSE ""
              IN pricing' = [pc |-> "done", body |-> pricing.body, bodyUsed |-> TRUE,
                             completion |-> completion, fallbackPricing |-> NotCalled,
                             response |-> PricingResponse(200,
                                 parsePricingResponse(responseContent, t))]
    /\ UNCHANGED <<export, chatRoute, extractVars, callVars, analyzeVars, sessionVars, clientVars>>

\* the promise of getFallbackPricing settles, after the response was made
PricingFallbackSettles ==
    /\ pricing.pc = "done"
    /\ pricing.fallbackPricing = Pending
    /\ \E t \in 1..MaxClock :
         pricing' = [pricing EXCEPT
                        !.fallbackPricing = getFallbackPricing(pricing.body, pricing.bodyUsed, t)]
    /\ UNCHANGED <<export, chatRoute, extractVars, callVars, analyzeVars, sessionVars, clientVars>>

PricingNext == PricingReceive \/ PricingCompletionAnswers \/ PricingFallbackSettles

\* ------------------------------------------------------------------------
\* chat/route.ts: the GET handler
\* ------------------------------------------------------------------------

\* request.nextUrl.searchParams.get('prompt')
ChatPrompts == {Null, Str(""), Str("Extract structured material data")}

ChatRouteInit ==
    /\ chatRoute \in {[pc |-> "received", prompt |-> p] : p \in ChatPrompts}
    /\ export = [pc |-> "idle"]
    /\ pricing = [pc |-> "idle"]
    /\ ExtractIdle
    /\ CallsIdle
    /\ AnalyzeIdle
    /\ SessionIdle
    /\ ClientIdle

\* if (!prompt) ...; then the completion is requested
ChatRouteReceive ==
    /\ chatRoute.pc = "received"
    /\ chatRoute' =
         IF ~Truthy(chatRoute.prompt)
         THEN [pc |-> "done", prompt |-> chatRoute.prompt, completion |-> NotCalled,
               response |-> [status |-> 400, json |-> [error |-> Str("Prompt is required")]]]
         ELSE [pc |-> "awaitCompletion", prompt |-> chatRoute.prompt]
    /\ UNCHANGED <<export, pricing, extractVars, callVars, analyzeVars, sessionVars, clientVars>>

\* the catch block: error instanceof Error ? error.message : ...
ChatRouteCaught(completion) ==
    [status |-> 500, json |-> [error |-> Str(completion.message)]]

\* await openai.chat.completions.create(...)
ChatRouteCompletionAnswers ==
    /\ chatRoute.pc = "awaitCompletion"
    /\ \E completion \in OpenAIOutcomes :
         chatRoute' =
           [pc |-> "done", prompt |-> chatRoute.prompt, completion |-> completion,
            response |->
              IF completion.k = "rejected" THEN ChatRouteCaught(completion)
              ELSE [status |-> 200,
                    json |-> [content |-> IF Truthy(completion.content)
                                          THEN completion.content ELSE Str("")]]]
    /\ UNCHANGED <<export, pricing, extractVars, callVars, analyzeVars, sessionVars, clientVars>>

ChatRouteNext == ChatRouteReceive \/ ChatRouteCompletionAnswers

\* ------------------------------------------------------------------------
\* The endpoints that call an upstream service: one request to one of them
\* ------------------------------------------------------------------------

UpstreamInit == AnalyzeInit \/ PricingInit \/ ChatRouteInit

UpstreamNext == AnalyzeNext \/ PricingNext \/ ChatRouteNext

SpecUpstream == UpstreamInit /\ [][UpstreamNext]_vars

\* ------------------------------------------------------------------------
\* Claims about upstream failures (checked under SpecUpstream)
\* ------------------------------------------------------------------------

\* a fetch of the analyze endpoint that met a network failure or a non-2xx
\* answer
FetchFailed(o) == o.k = "rejected" \/ (o.k = "json" /\ ~o.ok)

AnalyzeUpstreamFailed ==
    analyze.pc = "done" /\ \E i \in 1..Len(analyze.fetched) : FetchFailed(analyze.fetched[i])

PricingUpstreamFailed == pricing.pc = "done" /\ pricing.completion.k = "rejected"

ChatRouteUpstreamFailed == chatRoute.pc = "done" /\ chatRoute.completion.k = "rejected"

\* C17: on every endpoint a failure of an upstream service (network failure
\* or non-2xx answer) results in an HTTP 500 response that carries the caught
\* error's message, never in a success status
C17_UpstreamFailureIs500 ==
    /\ AnalyzeUpstreamFailed =>
         /\ analyze.response.status = 500
         /\ \A i \in 1..Len(analyze.fetched) :
              analyze.fetched[i].k = "rejected" =>
                 analyze.response.json.error = analyze.fetched[i].message
    /\ PricingUpstreamFailed =>
         /\ pricing.response.status = 500
         /\ pricing.response.json = [k |-> "object", error |-> pricing.completion.message]
    /\ ChatRouteUpstreamFailed =>
         /\ chatRoute.response.status = 500
         /\ chatRoute.response.json.error = Str(chatRoute.completion.message)

\* C17, for the chat endpoint alone: a failed completion is answered with
\* status 500 and the message of the caught error
ChatRouteFailureIs500WithMessage ==
    ChatRouteUpstreamFailed =>
        /\ chatRoute.response.status = 500
        /\ chatRoute.response.json.error = Str(chatRoute.completion.message)

\* C17, for the analyze endpoint and network failures alone: a rejected
\* fetch is answered with status 500 (and the text "Analysis failed")
AnalyzeRejectedFetchIs500 ==
    (analyze.pc = "done" /\ \E i \in 1..Len(analyze.fetched) : analyze.fetched[i].k = "rejected")
        => analyze.response = [status |-> 500, json |-> [error |-> "Analysis failed"]]

\* C17: the pricing endpoint has answered a failed completion with status
\* 200 and the body {}, and the fallback promise it left behind was rejected
PricingFailureAnswered200 ==
    /\ PricingUpstreamFailed
    /\ pricing.response = PricingResponse(200, [k |-> "object"])
    /\ pricing.fallbackPricing = [k |-> "rejected", error |-> "TypeError"]

\* C17: the analyze endpoint has answered a non-2xx answer of the endpoint
\* it calls with status 200 and a quotation
AnalyzeNon2xxAnswered200 ==
    /\ analyze.pc = "done"
    /\ \E i \in 1..Len(analyze.fetched) :
         analyze.fetched[i].k = "json" /\ ~analyze.fetched[i].ok
    /\ analyze.response.status = 200


\* ------------------------------------------------------------------------
\* The client pages: MeasurementAnalyzer (analyze-construction/route.ts,
\* lines 376 and on) and UploadPage (unnamed/part_001).  `client` holds the
\* React state of the mounted page, the running startAnalysis with the
\* values its closure captured, and the requests and timers of that run.
\* A fetch and the reading of its body are one step.
\* ------------------------------------------------------------------------

Pages == {"measurement", "upload"}

\* the runs of startAnalysis in one behaviour
MaxRuns == 2

\* the longest list of questions the questions endpoint answers with
MaxQuestions == 2

\* setTimeout(resolve, 500)
ChatDelayMs == 500

\* the files handleFileSelect accepts, by name and type
Files ==
    {[k |-> "file", name |-> "site.mp4", type |-> "video/mp4"],
     [k |-> "file", name |-> "wall.png", type |-> "image/png"]}

\* file.type.startsWith("image")
IsImage(file) == SubSeq(file.type, 1, 5) = "image"

Percent(p) == [n |-> p, d |-> 1]

\* ((i + 1) / questions.length) * 100 for the question at position i + 1
Progress(i, n) == [n |-> 100 * i, d |-> n]

initialSteps ==
    << [id |-> "upload", status |-> "pending", progress |-> Percent(0)],
       [id |-> "questions", status |-> "pending", progress |-> Percent(0)],
       [id |-> "analysis", status |-> "pending", progress |-> Percent(0)],
       [id |-> "formatting", status |-> "pending", progress |-> Percent(0)] >>

JsError(name, message) == [name |-> name, message |-> message]

\* `${error}`
ErrorString(error) == error.name \o ": " \o error.message

\* no startAnalysis has been called; stepsAtThrow records processingSteps as
\* they were when the catch block of the run was entered, reached that the
\* run has called setFinalResult
NoRun ==
    [pc |-> "none", sessionId |-> Str(""), currentStep |-> 0, startedAt |-> 0,
     stepsAtThrow |-> <<>>, reached |-> FALSE,
     freshSessionId |-> Str(""), uploaded |-> Undefined, summary |-> "",
     questions |-> <<>>, answers |-> <<>>, i |-> 0, qaData |-> <<>>,
     result |-> "", error |-> JsError("", "")]

\* the page after its first render
InitialClient(page) ==
    [pc |-> "mounted", page |-> page, uploadedFile |-> Null, sessionId |-> Str(""),
     isProcessing |-> FALSE, finalResult |-> "", processingSteps |-> <<>>,
     currentStep |-> 0, processingLogs |-> <<>>, analyses |-> <<>>,
     isAnalyzingWalls |-> FALSE, wallAnalysisError |-> "", wallAnalysisResult |-> Null,
     runs |-> 0, earlier |-> {}, sent |-> <<>>, run |-> NoRun]

ClientInit ==
    /\ client \in {InitialClient(page) : page \in Pages}
    /\ ExtractIdle
    /\ CallsIdle
    /\ AnalyzeIdle
    /\ SessionIdle
    /\ RouteIdle

\* updateStep(stepIndex, status, progress); stepIndex counts from 0
updateStep(c, stepIndex, status, progress) ==
    [c EXCEPT !.processingSteps =
                  [index \in 1..Len(c.processingSteps) |->
                      IF index - 1 = stepIndex
                      THEN [c.processingSteps[index] EXCEPT !.status = status,
                                                            !.progress = progress]
                      ELSE c.processingSteps[index]],
              !.currentStep = stepIndex]

\* addLog(message), without the time of day it puts before the message; the
\* upload page has none
addLog(c, message) ==
    IF c.page = "measurement" THEN [c EXCEPT !.processingLogs = Append(@, message)] ELSE c

\* fetch(...) is called: the request is in flight
Send(c, kind, i, sessionId, query) ==
    [c EXCEPT !.sent = Append(@, [kind |-> kind, i |-> i, sessionId |-> sessionId,
                                  query |-> query, outcome |-> Pending])]

\* the request or timer in flight, the last one started, has settled
Settle(c, outcome) == [c EXCEPT !.sent[Len(c.sent)].outcome = outcome]

\* the catch and finally blocks of startAnalysis: currentStep is the value
\* the closure of startAnalysis captured when it was called
Throw(c, error) ==
    LET logged == addLog(c, "Error: " \o ErrorString(error))
        marked == updateStep(logged, c.run.currentStep, "error", Percent(0))
    IN [marked EXCEPT !.isProcessing = FALSE, !.run.pc = "ended",
                      !.run.result = "failed", !.run.error = error,
                      !.run.stepsAtThrow = c.processingSteps]

\* what a fetch gives: it is rejected, or it is answered with a status and
\* a JSON body
Rejected == [k |-> "rejected", error |-> JsError("TypeError", "Failed to fetch")]

Answered(ok, data) == [k |-> "answered", ok |-> ok, data |-> data]

ErrorBody == [k |-> "object", error |-> Str("Internal error")]

\* the session identifier the upload of run number r is answered with
SessionOfRun(r) == SessionIdAt(r, "k3x9q2m1a")

UploadOutcomes(r) ==
    {Rejected, Answered(FALSE, ErrorBody),
     Answered(TRUE, [k |-> "object", sessionId |-> Str(SessionOfRun(r))]),
     Answered(TRUE, [k |-> "object", sessionId |-> Undefined])}

\* the answers of process-media?action=chat: a completion, a completion
\* without content, or an error object
ChatOutcomes ==
    {Rejected, Answered(FALSE, [k |-> "object", content |-> Undefined]),
     Answered(TRUE, [k |-> "object", content |-> Str("The wall is 3 m long")]),
     Answered(TRUE, [k |-> "object", content |-> Undefined])}

QuestionText(i) == "Question " \o NumberToString(i) \o "?"

QuestionsOutcomes ==
    {Rejected, Answered(FALSE, [k |-> "object", questions |-> Undefined]),
     Answered(TRUE, [k |-> "object", questions |-> Undefined])}
        \cup {Answered(TRUE, [k |-> "object",
                              questions |-> [k |-> "array",
                                             items |-> [i \in 1..n |-> QuestionText(i)]]]) :
                 n \in 0..MaxQuestions}

FormatOutcomes ==
    {Rejected, Answered(FALSE, [k |-> "object", result |-> Undefined]),
     Answered(TRUE, [k |-> "object", result |-> Str("Wall: 3 m x 2.5 m")]),
     Answered(TRUE, [k |-> "object", result |-> Undefined])}

SegmentationOutcomes ==
    {Rejected, Answered(FALSE, ErrorBody), Answered(TRUE, Null)}
        \cup {Answered(TRUE, [k |-> "object", wall_count |-> n]) : n \in 0..1}

SummaryQuery == "Summarize this video/image"

\* handleFileSelect: the file input is reached through the drop zone, which
\* is rendered while no file is chosen
handleFileSelect ==
    /\ client.pc = "mounted"
    /\ client.uploadedFile = Null
    /\ \E file \in Files :
         client' = [client EXCEPT !.uploadedFile = file,
                                  !.processingSteps = initialSteps,
                                  !.processingLogs = <<>>,
                                  !.finalResult = "",
                                  !.sessionId = Str(""),
                                  !.wallAnalysisResult = Null,
                                  !.wallAnalysisError = "",
                                  !.isAnalyzingWalls = FALSE]
    /\ UNCHANGED <<extractVars, callVars, analyzeVars, sessionVars, routeVars>>

\* formatFinalResult up to its fetch
StartFormat(c) ==
    LET c1 == addLog(updateStep(c, 3, "processing", Percent(50)),
                     "Formatting final measurements...")
        qaData == [i \in 1..Len(c.run.questions) |->
                      [question |-> c.run.questions[i],
                       answer |-> IF i <= Len(c.run.answers) /\ c.run.answers[i] # ""
                                  THEN c.run.answers[i] ELSE "No answer"]]
    IN [Send(c1, "format", 0, Undefined, "") EXCEPT !.run.pc = "format",
                                                     !.run.qaData = qaData]

\* the loop of analyzeWithQuestions from the question at position i on, up
\* to its next fetch; after the loop, the return to startAnalysis and
\* formatFinalResult.  sessionId is the closure's variable on the
\* measurement page and the parameter on the upload page.
LoopFrom(c, i) ==
    LET n == Len(c.run.questions)
    IN IF i > n
       THEN StartFormat(addLog(updateStep(c, 2, "completed", Percent(100)),
                               "Detailed analysis completed"))
       ELSE LET c1 == addLog(updateStep(c, 2, "processing", Progress(i, n)),
                             "Analyzing question " \o NumberToString(i) \o "/"
                                 \o NumberToString(n) \o ": "
                                 \o SubSeq(c.run.questions[i], 1,
                                           Min(50, Len(c.run.questions[i])))
                                 \o "...")
                sessionId == IF c.page = "measurement" THEN c.run.sessionId
                             ELSE c.run.freshSessionId
            IN [Send(c1, "chat", i, sessionId, c.run.questions[i])
                   EXCEPT !.run.pc = "chat", !.run.i = i]

\* startAnalysis is called by a click on its button, which is disabled
\* while isProcessing; it runs up to the first fetch
startAnalysis ==
    /\ client.pc = "mounted"
    /\ client.uploadedFile # Null
    /\ ~client.isProcessing
    /\ client.runs < MaxRuns
    /\ \E t \in 1..MaxClock :
         LET c0 == [client EXCEPT
                       !.isProcessing = TRUE,
                       !.currentStep = 0,
                       !.runs = @ + 1,
                       !.sent = <<>>,
                       !.earlier = @ \cup (IF client.run.uploaded = Undefined THEN {}
                                           ELSE {client.run.uploaded}),
                       !.run = [NoRun EXCEPT
                                   !.pc = "started",
                                   !.sessionId = client.sessionId,
                                   !.currentStep = client.currentStep,
                                   !.startedAt = t,
                                   !.freshSessionId =
                                       IF client.page = "upload"
                                       THEN Str("image_" \o NumberToString(t))
                                       ELSE Str("")]]
             c1 == updateStep(c0, 0, "processing", Percent(25))
         IN client' =
              IF client.page = "upload" /\ IsImage(client.uploadedFile)
              THEN [Send(c1, "segmentation", 0, Undefined, "") EXCEPT
                       !.run.pc = "segmentation"]
              ELSE [Send(addLog(c1, "Uploading file to NVIDIA API..."),
                         "upload", 0, Undefined, "") EXCEPT !.run.pc = "upload"]
    /\ UNCHANGED <<extractVars, callVars, analyzeVars, sessionVars, routeVars>>

\* uploadAndSummarize after the upload fetch
UploadAnswers ==
    /\ client.pc = "mounted"
    /\ client.run.pc = "upload"
    /\ \E o \in UploadOutcomes(client.runs) :
         LET c == Settle(client, o)
         IN client' =
              IF o.k = "rejected" THEN Throw(c, o.error)
              ELSE IF ~o.ok THEN Throw(c, JsError("Error", "Upload failed"))
              ELSE IF c.page = "upload" /\ ~Truthy(o.data.sessionId)
              THEN Throw(c, JsError("Error", "No session ID received from API"))
              ELSE LET c1 == [c EXCEPT !.run.uploaded = o.data.sessionId,
                                       !.sessionId = IF c.page = "measurement"
                                                     THEN o.data.sessionId ELSE @]
                       c2 == addLog(updateStep(c1, 0, "processing", Percent(50)),
                                    "File uploaded successfully, generating summary...")
                   IN [Send(c2, "summary", 0, o.data.sessionId, SummaryQuery)
                          EXCEPT !.run.pc = "summary"]
    /\ UNCHANGED <<extractVars, callVars, analyzeVars, sessionVars, routeVars>>

\* uploadAndSummarize after the summary fetch, then generateQuestions up to
\* its fetch
SummaryAnswers ==
    /\ client.pc = "mounted"
    /\ client.run.pc = "summary"
    /\ \E o \in ChatOutcomes :
         LET c == Settle(client, o)
         IN client' =
              IF o.k = "rejected" THEN Throw(c, o.error)
              ELSE LET c1 == [c EXCEPT
                                 !.run.summary = IF Truthy(o.data.content)
                                                 THEN o.data.content.s ELSE "",
                                 !.run.freshSessionId =
                                     IF c.page = "upload" THEN c.run.uploaded ELSE @]
                       c2 == addLog(updateStep(c1, 0, "completed", Percent(100)),
                                    "Summary generated successfully")
                       c3 == addLog(updateStep(c2, 1, "processing", Percent(50)),
                                    "Generating detailed analysis questions...")
                   IN [Send(c3, "questions", 0, Undefined, "") EXCEPT
                          !.run.pc = "questions"]
    /\ UNCHANGED <<extractVars, callVars, analyzeVars, sessionVars, routeVars>>

\* generateQuestions after its fetch, then analyzeWithQuestions up to its
\* first fetch
QuestionsAnswer ==
    /\ client.pc = "mounted"
    /\ client.run.pc = "questions"
    /\ \E o \in QuestionsOutcomes :
         LET c == Settle(client, o)
         IN client' =
              IF o.k = "rejected" THEN Throw(c, o.error)
              ELSE IF ~o.ok THEN Throw(c, JsError("Error", "Failed to generate questions"))
              ELSE LET questions == IF o.data.questions = Undefined THEN <<>>
                                    ELSE o.data.questions.items
                       c1 == [c EXCEPT !.run.questions = questions]
                       c2 == addLog(updateStep(c1, 1, "completed", Percent(100)),
                                    "Generated " \o NumberToString(Len(questions))
                                        \o " analysis questions")
                       c3 == addLog(updateStep(c2, 2, "processing", Percent(0)),
                                    "Starting detailed measurement analysis...")
                   IN LoopFrom(c3, 1)
    /\ UNCHANGED <<extractVars, callVars, analyzeVars, sessionVars, routeVars>>

\* answers.push(answer), then the timer of 500 ms is set
PushAndWait(c, answer) ==
    [Send([c EXCEPT !.run.answers = Append(@, answer)], "timer", c.run.i, Undefined, "")
        EXCEPT !.run.pc = "delay"]

\* a catch inside the loop that logs the failure and pushes nothing
PushPlaceholderSkips(c) == LoopFrom(c, c.run.i + 1)

\* the upload page's catch inside the loop: the placeholder is pushed and
\* the loop goes on with the next question
PushPlaceholder(c) ==
    LoopFrom([c EXCEPT !.run.answers = Append(@, "Error processing this question")],
             c.run.i + 1)

\* the loop of analyzeWithQuestions after the fetch of a question
ChatAnswers ==
    /\ client.pc = "mounted"
    /\ client.run.pc = "chat"
    /\ \E o \in ChatOutcomes :
         LET c == Settle(client, o)
             answer == IF o.k = "answered" /\ Truthy(o.data.content)
                       THEN o.data.content.s ELSE "No answer available"
         IN client' =
              IF c.page = "measurement"
              THEN IF o.k = "rejected" THEN Throw(c, o.error) ELSE PushAndWait(c, answer)
              ELSE IF o.k = "rejected" \/ ~o.ok THEN PushPlaceholder(c)
                   ELSE PushAndWait(c, answer)
    /\ UNCHANGED <<extractVars, callVars, analyzeVars, sessionVars, routeVars>>

\* the timer fires, and the loop goes on
DelayElapses ==
    /\ client.pc = "mounted"
    /\ client.run.pc = "delay"
    /\ client' = LoopFrom(Settle(client, [k |-> "elapsed", ms |-> ChatDelayMs]),
                          client.run.i + 1)
    /\ UNCHANGED <<extractVars, callVars, analyzeVars, sessionVars, routeVars>>

\* localStorage.setItem stores the value, or raises when the quota of the
\* origin is exceeded
SetItemOutcomes == {"stored", "QuotaExceededError"}

\* the end of the try block of startAnalysis, and its finally block.  The
\* upload page also appends the analysis to localStorage's "analyses", which
\* holds the array this code wrote before (JSON.parse gives back the records
\* JSON.stringify was given, all their fields being strings); when setItem
\* raises, the catch block is entered with the final result already set
Finish(c, result, setItem) ==
    LET c1 == addLog([c EXCEPT !.finalResult = result, !.run.reached = TRUE],
                     "Analysis completed successfully!")
        analysisData == [fileName |-> c.uploadedFile.name, result |-> result,
                         timestamp |-> IsoAt(c.run.startedAt),
                         sessionId |-> c.run.freshSessionId,
                         type |-> IF IsImage(c.uploadedFile) THEN "image_segmentation"
                                  ELSE "video_analysis"]
        c2 == IF c.page = "upload" THEN [c1 EXCEPT !.analyses = Append(@, analysisData)]
              ELSE c1
    IN IF c.page = "upload" /\ setItem = "QuotaExceededError"
       THEN Throw(c1, JsError("QuotaExceededError", "The quota has been exceeded."))
       ELSE [c2 EXCEPT !.isProcessing = FALSE, !.run.pc = "ended",
                       !.run.result = "completed"]

\* formatFinalResult after its fetch
FormatAnswers ==
    /\ client.pc = "mounted"
    /\ client.run.pc = "format"
    /\ \E o \in FormatOutcomes, setItem \in SetItemOutcomes :
         LET c == Settle(client, o)
         IN client' =
              IF o.k = "rejected" THEN Throw(c, o.error)
              ELSE IF ~o.ok THEN Throw(c, JsError("Error", "Failed to format results"))
              ELSE Finish(addLog(updateStep(c, 3, "completed", Percent(100)),
                                 "Final formatting completed"),
                          IF Truthy(o.data.result) THEN o.data.result.s
                          ELSE "No measurements could be determined",
                          setItem)
    /\ UNCHANGED <<extractVars, callVars, analyzeVars, sessionVars, routeVars>>

\* processImageSegmentation after its fetch, and the image branch of the
\* upload page's startAnalysis; reading a property of a null body raises
SegmentationAnswers ==
    /\ client.pc = "mounted"
    /\ client.run.pc = "segmentation"
    /\ \E o \in SegmentationOutcomes, setItem \in SetItemOutcomes :
         LET c == Settle(client, o)
         IN client' =
              IF o.k = "rejected" THEN Throw(c, o.error)
              ELSE IF ~o.ok THEN Throw(c, JsError("Error", "Image segmentation failed"))
              ELSE LET c1 == updateStep(c, 0, "completed", Percent(100))
                   IN IF o.data = Null
                      THEN Throw(c1, JsError("TypeError", "Cannot read properties of null"))
                      ELSE Finish(updateStep(updateStep(updateStep(c1,
                                      1, "completed", Percent(100)),
                                      2, "completed", Percent(100)),
                                      3, "completed", Percent(100)),
                                  "WALL SEGMENTATION ANALYSIS - Total walls detected: "
                                      \o NumberToString(o.data.wall_count),
                                  setItem)
    /\ UNCHANGED <<extractVars, callVars, analyzeVars, sessionVars, routeVars>>

\* the steps startMeasurementAnalysis puts in place of the page's
wallSteps ==
    << [id |-> "segmentation", status |-> "pending", progress |-> Percent(0)],
       [id |-> "depth_analysis", status |-> "pending", progress |-> Percent(0)],
       [id |-> "measurements", status |-> "pending", progress |-> Percent(0)],
       [id |-> "visualization", status |-> "pending", progress |-> Percent(0)] >>

NotJson == [k |-> "notJson"]

Boolean(b) == [k |-> "boolean", b |-> b]

\* ToBoolean, of a boolean as well
IsTrue(v) == IF v.k = "boolean" THEN v.b ELSE Truthy(v)

\* what the fetch of localhost:8000/analyze gives, data being what
\* response.json() gives afterwards
WallAnalysisOutcomes ==
    {Rejected, Answered(FALSE, ErrorBody), Answered(TRUE, NotJson),
     Answered(TRUE, [k |-> "object", success |-> Boolean(TRUE), message |-> Undefined]),
     Answered(TRUE, [k |-> "object", success |-> Boolean(FALSE),
                     message |-> Str("No walls detected")]),
     Answered(TRUE, [k |-> "object", success |-> Boolean(FALSE), message |-> Undefined])}

\* the catch and finally blocks of startMeasurementAnalysis, the log entry
\* without the mark before its message: currentStep is the value the closure
\* captured when startMeasurementAnalysis was called
ThrowWall(c, error) ==
    LET errorMessage == "Error: " \o error.message
        logged == addLog([c EXCEPT !.wallAnalysisError = errorMessage], errorMessage)
        marked == updateStep(logged, c.run.currentStep, "error", Percent(0))
    IN [marked EXCEPT !.isAnalyzingWalls = FALSE, !.isProcessing = FALSE,
                      !.run.pc = "ended", !.run.result = "failed", !.run.error = error,
                      !.run.stepsAtThrow = c.processingSteps]

\* startMeasurementAnalysis is called by a click on its button, which the
\* measurement page renders for an image and disables while isAnalyzingWalls
\* or isProcessing; it runs up to its fetch
startMeasurementAnalysis ==
    /\ client.pc = "mounted"
    /\ client.page = "measurement"
    /\ client.uploadedFile # Null
    /\ IsImage(client.uploadedFile)
    /\ ~(client.isAnalyzingWalls \/ client.isProcessing)
    /\ client.runs < MaxRuns
    /\ LET c0 == [client EXCEPT
                     !.isAnalyzingWalls = TRUE,
                     !.wallAnalysisError = "",
                     !.isProcessing = TRUE,
                     !.currentStep = 0,
                     !.processingLogs = <<>>,
                     !.processingSteps = wallSteps,
                     !.runs = @ + 1,
                     !.sent = <<>>,
                     !.earlier = @ \cup (IF client.run.uploaded = Undefined THEN {}
                                         ELSE {client.run.uploaded}),
                     !.run = [NoRun EXCEPT !.pc = "wallAnalyze",
                                           !.sessionId = client.sessionId,
                                           !.currentStep = client.currentStep]]
           c1 == addLog(updateStep(c0, 0, "processing", Percent(50)),
                        "Step 1: Performing wall segmentation using YOLOv8 and SAM models...")
       IN client' = Send(c1, "analyze", 0, Undefined, "")
    /\ UNCHANGED <<extractVars, callVars, analyzeVars, sessionVars, routeVars>>

\* startMeasurementAnalysis after its fetch, up to await response.json()
WallAnalyzeAnswers ==
    /\ client.pc = "mounted"
    /\ client.run.pc = "wallAnalyze"
    /\ \E o \in WallAnalysisOutcomes :
         LET c == Settle(client, o)
         IN client' =
              IF o.k = "rejected" THEN ThrowWall(c, o.error)
              ELSE IF ~o.ok THEN ThrowWall(c, JsError("Error", "HTTP error! status: 500"))
              ELSE LET c1 == updateStep(updateStep(c, 0, "completed", Percent(100)),
                                        1, "processing", Percent(50))
                       c2 == addLog(addLog(c1,
                                 "Step 1 completed: Wall segmentation successful"),
                                 "Step 2: Generating depth map using DepthPro model...")
                   IN [c2 EXCEPT !.run.pc = "wallJson"]
    /\ UNCHANGED <<extractVars, callVars, analyzeVars, sessionVars, routeVars>>

\* startMeasurementAnalysis after await response.json(), to its end
WallJsonParsed ==
    /\ client.pc = "mounted"
    /\ client.run.pc = "wallJson"
    /\ LET data == client.sent[Len(client.sent)].outcome.data
       IN client' =
            IF data = NotJson
            THEN ThrowWall(client, JsError("SyntaxError", "Unexpected token < in JSON"))
            ELSE LET c1 == updateStep(updateStep(client, 1, "completed", Percent(100)),
                                      2, "processing", Percent(50))
                     c2 == addLog(addLog(c1,
                               "Step 2 completed: Depth map generated successfully"),
                               "Step 3: Calculating real-world measurements from depth data...")
                 IN IF IsTrue(data.success)
                    THEN LET c3 == updateStep(updateStep(c2, 2, "completed", Percent(100)),
                                              3, "processing", Percent(50))
                             c4 == addLog(addLog(c3,
                                       "Step 3 completed: Measurements calculated successfully"),
                                       "Step 4: Generating visualization images...")
                             c5 == addLog(updateStep(c4, 3, "completed", Percent(100)),
                                       "Complete measurement analysis pipeline finished successfully!")
                         IN [c5 EXCEPT !.wallAnalysisResult = data,
                                       !.isAnalyzingWalls = FALSE,
                                       !.isProcessing = FALSE,
                                       !.run.pc = "ended", !.run.result = "completed"]
                    ELSE ThrowWall(c2, JsError("Error",
                             IF Truthy(data.message) THEN data.message.s
                             ELSE "Wall analysis failed"))
    /\ UNCHANGED <<extractVars, callVars, analyzeVars, sessionVars, routeVars>>

ClientNext ==
    \/ handleFileSelect
    \/ startAnalysis
    \/ UploadAnswers
    \/ SummaryAnswers
    \/ QuestionsAnswer
    \/ ChatAnswers
    \/ DelayElapses
    \/ FormatAnswers
    \/ SegmentationAnswers
    \/ startMeasurementAnalysis
    \/ WallAnalyzeAnswers
    \/ WallJsonParsed

SpecClient == ClientInit /\ [][ClientNext]_vars


\* ------------------------------------------------------------------------
\* Claims about the client pipeline (checked under SpecClient)
\* ------------------------------------------------------------------------

\* the positions of the chat requests of analyzeWithQuestions among what
\* the current run has sent
QuestionRequests == {p \in 1..Len(client.sent) : client.sent[p].kind = "chat"}

\* a request that is in flight
Outstanding(p) == client.sent[p].kind # "timer" /\ client.sent[p].outcome = Pending

\* a request whose fetch was rejected or answered with a non-2xx status
FailedCall(p) ==
    /\ client.sent[p].kind # "timer"
    /\ \/ client.sent[p].outcome.k = "rejected"
       \/ client.sent[p].outcome.k = "answered" /\ ~client.sent[p].outcome.ok

\* analyzeWithQuestions has returned
LoopReturned ==
    /\ client.run.pc \in {"format", "ended"}
    /\ \E p \in 1..Len(client.sent) : client.sent[p].kind = "questions"
                                         /\ client.sent[p].outcome.k = "answered"
                                         /\ client.sent[p].outcome.ok
    /\ Len(client.run.answers) = Len(client.run.questions)

\* the requests of the loop are those of the first questions, one each and
\* in question order, and of all questions once the loop has returned
OnePerQuestionInOrder ==
    /\ \A p \in QuestionRequests :
         LET i == Cardinality({q \in QuestionRequests : q <= p})
         IN /\ client.sent[p].i = i
            /\ i <= Len(client.run.questions)
            /\ client.sent[p].query = client.run.questions[i]
    /\ LoopReturned => Cardinality(QuestionRequests) = Len(client.run.questions)

OneOutstanding == Cardinality({p \in 1..Len(client.sent) : Outstanding(p)}) <= 1

\* the timer of 500 ms was set and has fired between the requests at p and q
DelayElapsedBetween(p, q) ==
    \E m \in (p + 1)..(q - 1) :
        /\ client.sent[m].kind = "timer"
        /\ client.sent[m].outcome = [k |-> "elapsed", ms |-> 500]

\* C18: in analyzeWithQuestions of both pages exactly one chat request is
\* issued per generated question, in question order, never more than one is
\* outstanding, and between every two consecutive requests the delay of 500 ms
\* elapses, whatever the outcome of the earlier request
C18_OneRequestPerQuestionWithDelay ==
    client.pc = "mounted" =>
        /\ OnePerQuestionInOrder
        /\ OneOutstanding
        /\ \A p, q \in QuestionRequests : p < q => DelayElapsedBetween(p, q)

\* C18 without the delay after a failed request: one request per question,
\* in order, one at a time, and the delay elapses after every request whose
\* answer was pushed by the try block
OneRequestPerQuestionDelayAfterSuccess ==
    client.pc = "mounted" =>
        /\ OnePerQuestionInOrder
        /\ OneOutstanding
        /\ \A p, q \in QuestionRequests :
             (p < q /\ ~(client.page = "upload" /\ FailedCall(p))) =>
                 DelayElapsedBetween(p, q)

\* C18: on the upload page the request of a question has failed and the
\* request of the next question was sent with no timer between them
NextQuestionSentWithoutDelay ==
    /\ client.pc = "mounted"
    /\ client.page = "upload"
    /\ \E p \in QuestionRequests :
         /\ FailedCall(p)
         /\ p + 1 \in QuestionRequests

\* C19: a failed outbound call (rejected fetch or non-2xx answer) at any
\* stage, a per-question chat call included, is never retried and at once ends
\* the run as an error: nothing is sent after it, neither a later question
\* nor the formatting request
C19_FailedCallEndsRun ==
    client.pc = "mounted" =>
        \A p \in 1..Len(client.sent) :
            FailedCall(p) =>
                /\ p = Len(client.sent)
                /\ client.run.pc = "ended"
                /\ client.run.result = "failed"

\* C19, for the calls whose answer the code tests with response.ok (upload,
\* questions, formatting, segmentation) and for every rejected fetch outside
\* the upload page's loop: the run ends as an error and nothing is sent after
FailedCheckedCallEndsRun ==
    client.pc = "mounted" =>
        \A p \in 1..Len(client.sent) :
            (/\ FailedCall(p)
             /\ \/ client.sent[p].kind \in {"upload", "questions", "format", "segmentation"}
                \/ /\ client.sent[p].outcome.k = "rejected"
                   /\ ~(client.page = "upload" /\ client.sent[p].kind = "chat")) =>
                /\ p = Len(client.sent)
                /\ client.run.pc = "ended"
                /\ client.run.result = "failed"

\* C19: no call is sent twice in a run
NoCallRepeated ==
    client.pc = "mounted" =>
        \A p, q \in 1..Len(client.sent) :
            (p # q /\ client.sent[p].kind # "timer" /\ client.sent[p].kind = client.sent[q].kind)
                => client.sent[p].i # client.sent[q].i

\* C19: a per-question call got a non-2xx answer, the next question was
\* sent, and the run has completed with a final result
RunCompletedAfterFailedQuestion ==
    /\ client.pc = "mounted"
    /\ client.run.pc = "ended"
    /\ client.run.result = "completed"
    /\ \E p \in QuestionRequests :
         /\ client.sent[p].outcome.k = "answered" /\ ~client.sent[p].outcome.ok
         /\ p < Len(client.sent)
         /\ \E q \in QuestionRequests : q > p

\* C20: in every run of either page each per-question chat request carries
\* the session identifier that the upload of the same run returned, never an
\* empty identifier and never the identifier of an earlier run
C20_ChatCarriesSessionOfRun ==
    client.pc = "mounted" =>
        \A p \in QuestionRequests :
            /\ client.sent[p].sessionId = client.run.uploaded
            /\ Truthy(client.sent[p].sessionId)
            /\ client.sent[p].sessionId \notin client.earlier

\* C20, for the upload page, and for the summary request of both pages
UploadPageChatCarriesSessionOfRun ==
    client.pc = "mounted" =>
        \A p \in 1..Len(client.sent) :
            (\/ client.sent[p].kind = "summary"
             \/ client.sent[p].kind = "chat" /\ client.page = "upload") =>
                /\ client.sent[p].sessionId = client.run.uploaded
                /\ client.sent[p].sessionId \notin client.earlier
                /\ (client.page = "upload" => Truthy(client.sent[p].sessionId))

\* C20, on the measurement page: each per-question request carries the
\* value the state sessionId had when startAnalysis was called
MeasurementChatCarriesStateAtClick ==
    (client.pc = "mounted" /\ client.page = "measurement") =>
        \A p \in QuestionRequests : client.sent[p].sessionId = client.run.sessionId

\* C20: on the measurement page a question of the first run was sent with
\* the empty identifier
ChatCarriesEmptySession ==
    /\ client.pc = "mounted"
    /\ client.page = "measurement"
    /\ client.runs = 1
    /\ client.run.uploaded = Str(SessionOfRun(1))
    /\ \E p \in QuestionRequests : client.sent[p].sessionId = Str("")

\* C20: on the measurement page a question of the second run was sent with
\* the identifier the upload of the first run returned
ChatCarriesSessionOfEarlierRun ==
    /\ client.pc = "mounted"
    /\ client.page = "measurement"
    /\ client.runs = 2
    /\ client.run.uploaded = Str(SessionOfRun(2))
    /\ \E p \in QuestionRequests :
         /\ client.sent[p].sessionId = Str(SessionOfRun(1))
         /\ client.sent[p].sessionId \in client.earlier


\* ------------------------------------------------------------------------
\* Claims about concurrent requests on the session store (SpecSession)
\* ------------------------------------------------------------------------

\* request r is a chat between sessions.get, which found the session, and
\* the return of chatWithMediaNvcf
ChatInFlight(r) ==
    /\ requests[r].pc = "chat"
    /\ requests[r].loc.sessionData # Undefined

\* every asset of the list has been handed to deleteAsset
AllSubmitted(assetList) ==
    \A i \in 1..Len(assetList) :
       \E j \in 1..Len(deleteLog) : deleteLog[j] = assetList[i]

\* C21: a cleanup is not held back by a chat that has read the session, and
\* the chat is not failed by the cleanup: a step that removes a session
\* leaves every chat in flight on it as it was, and a chat in flight
\* answers 200 with the completion computed from the asset list it read,
\* whether or not the store still holds the session
C21_ChatInFlightSurvivesCleanup ==
    [][\A r \in 1..Len(requests) :
          ChatInFlight(r) =>
             /\ (~MapHas(sessions', requests[r].req.payload.sessionId)
                   /\ MapHas(sessions, requests[r].req.payload.sessionId))
                => requests'[r] = requests[r]
             /\ requests'[r].pc = "done"
                => /\ requests'[r].response.status = 200
                   /\ requests'[r].response.body = ChatCompletion
                   /\ requests'[r].loc.assetSeq
                        = Join(requests[r].loc.sessionData.assetList, ",")]_vars

\* C21 (case reached): a chat is in flight on a session that a cleanup has
\* meanwhile removed after submitting all its assets for deletion
ChatInFlightOnRemovedSession ==
    \E r \in 1..Len(requests) :
       /\ ChatInFlight(r)
       /\ requests[r].loc.sessionData.assetList # <<>>
       /\ ~MapHas(sessions, requests[r].req.payload.sessionId)
       /\ AllSubmitted(requests[r].loc.sessionData.assetList)
       /\ \E c \in 1..Len(requests) :
             /\ requests[c].pc = "done"
             /\ requests[c].req.action = Str("cleanup")
             /\ requests[c].req.payload.sessionId = requests[r].req.payload.sessionId
             /\ requests[c].response.status = 200


\* the cleanup requests naming session id that have passed the sessions.has
\* check and handed the asset at position i to deleteAsset
Submitters(id, i) ==
    {c \in 1..Len(requests) :
        /\ requests[c].req.action = Str("cleanup")
        /\ requests[c].req.payload.k = "json"
        /\ requests[c].req.payload.sessionId = Str(id)
        /\ \/ requests[c].pc = "deleteAsset" /\ requests[c].loc.i >= i
           \/ /\ requests[c].pc = "done"
              /\ requests[c].response.status = 200
              /\ Len(requests[c].loc.sessionData.assetList) >= i}

\* the cleanup requests naming session id that were answered with status
CleanupsAnswered(id, status) ==
    {c \in 1..Len(requests) :
        /\ requests[c].req.action = Str("cleanup")
        /\ requests[c].req.payload.k = "json"
        /\ requests[c].req.payload.sessionId = Str(id)
        /\ requests[c].pc = "done"
        /\ requests[c].response.status = status}

\* C22: however the cleanup requests naming a session interleave, each asset
\* of the session is handed to deleteAsset at most once and at most one of
\* the requests is answered with success
C22_CleanupAtMostOnce ==
    \A id \in IssuedIds :
       /\ \A i \in 1..MaxRequests : Cardinality(Submitters(id, i)) <= 1
       /\ Cardinality(CleanupsAnswered(id, 200)) <= 1

\* C22 (case reached): two cleanup requests of one session both answered
\* with success, none with session not found
TwoCleanupsSucceed ==
    \E id \in IssuedIds :
       /\ Cardinality(CleanupsAnswered(id, 200)) = 2
       /\ CleanupsAnswered(id, 404) = {}
       /\ Cardinality(Submitters(id, 1)) = 2

\* C22 (what holds): a cleanup request that reads its body after another
\* cleanup of the session has answered is told session not found
CleanupAfterCleanupNotFound ==
    [][\A c \in 1..Len(requests) :
          (/\ requests[c].pc = "cleanupJson"
           /\ requests'[c].pc # "cleanupJson"
           /\ requests[c].req.payload.k = "json"
           /\ requests[c].req.payload.sessionId.k = "string"
           /\ CleanupsAnswered(requests[c].req.payload.sessionId.s, 200) # {}
           /\ ~MapHas(sessions, requests[c].req.payload.sessionId))
          => requests'[c].response.status = 404]_vars


\* ------------------------------------------------------------------------
\* Claims about the fallback of the pricing endpoint (SpecUpstream)
\* ------------------------------------------------------------------------

\* the record getFallbackPricing builds for a body when it can read it
FallbackRecords(body) ==
    {getFallbackPricing(body, FALSE, t) : t \in 1..MaxClock}

\* C23: when the completion of the pricing endpoint fails for a request that
\* passed validation, the response body is the fallback pricing record: the
\* unit price of the static table for the request's material and unit (0
\* when absent), the fallback source and a lastUpdated timestamp
C23_FailureGivesFallbackRecord ==
    PricingUpstreamFailed =>
       /\ pricing.response.status = 200
       /\ pricing.response.json \in FallbackRecords(pricing.body)

\* C23 (case reached): the completion failed for a request for concrete by
\* the cubic yard, which the table prices at 120, and the response body has
\* no unitPrice, no source and no lastUpdated
FallbackRecordMissing ==
    /\ PricingUpstreamFailed
    /\ pricing.body.material = Str("Ready Mix Concrete")
    /\ pricing.body.unit = Str("cubic yard")
    /\ \E r \in FallbackRecords(pricing.body) : r.unitPrice = Num(120, 1)
    /\ pricing.response = PricingResponse(200, [k |-> "object"])
    /\ DOMAIN pricing.response.json = {"k"}

\* C23 (what holds): the response to a failed completion is made while the
\* promise of getFallbackPricing is pending, and that promise is rejected
\* because the body of the request was read before
FallbackPromiseNeverFulfilled ==
    PricingUpstreamFailed =>
       /\ pricing.response = PricingResponse(200, [k |-> "object"])
       /\ pricing.fallbackPricing \in {Pending, [k |-> "rejected", error |-> "TypeError"]}


\* ------------------------------------------------------------------------
\* Claims about the browser of the export endpoint (SpecExport)
\* ------------------------------------------------------------------------

\* C24: every browser the export endpoint has launched is closed when the
\* endpoint returns its response, on every exit path
C24_BrowserClosedOnReturn ==
    export.pc = "done" => export.browser \in {"none", "closed"}

\* C24 (case reached): producing the PDF failed, the HTML fallback was
\* returned and the browser launched for the request is still open
BrowserLeftOpenAfterFallback ==
    /\ export.pc = "done"
    /\ export.failedAt = "pdf"
    /\ export.response.status = 200
    /\ export.response.contentType = "text/html"
    /\ export.browser = "open"

\* C24 (what holds): the browser is closed when the PDF is returned, and is
\* left open on every path that leaves the rendering steps after the launch
\* through the catch
BrowserClosedOnlyWithPdf ==
    export.pc = "done" =>
       /\ export.response.contentType = "application/pdf" => export.browser = "closed"
       /\ export.failedAt \in {"newPage", "generateProfessionalHTML", "setContent", "pdf"}
            => export.browser = "open"


\* ------------------------------------------------------------------------
\* Claims about the steps and flags of a run (SpecClient)
\* ------------------------------------------------------------------------

\* the run of startAnalysis or startMeasurementAnalysis has ended in its
\* catch block
RunFailed == client.pc = "mounted" /\ client.run.pc = "ended" /\ client.run.result = "failed"

\* C25: when a stage of the pipeline fails, the step set to "error" is the
\* step that was "processing" at the moment of the failure, and every other
\* step keeps the status it had, a completed step its "completed"
C25_ErrorMarksProcessingStep ==
    RunFailed =>
       \A index \in 1..Len(client.processingSteps) :
          IF client.run.stepsAtThrow[index].status = "processing"
          THEN client.processingSteps[index].status = "error"
          ELSE client.processingSteps[index].status
                  = client.run.stepsAtThrow[index].status

\* C25 (case reached): generating the questions failed in the first run of
\* a page; the completed first step has been set to "error" and the second
\* step, which was processing, still is
CompletedStepMarkedError ==
    /\ RunFailed
    /\ client.runs = 1
    /\ client.sent[Len(client.sent)].kind = "questions"
    /\ client.run.stepsAtThrow[1].status = "completed"
    /\ client.run.stepsAtThrow[2].status = "processing"
    /\ client.processingSteps[1].status = "error"
    /\ client.processingSteps[2].status = "processing"

\* C25 (case reached): the answer of the measurement analysis was no JSON;
\* the completed segmentation step has been set to "error" and the depth
\* step is left processing
WallStepMarkedError ==
    /\ RunFailed
    /\ client.runs = 1
    /\ client.sent[Len(client.sent)].kind = "analyze"
    /\ client.run.stepsAtThrow[1].status = "completed"
    /\ client.processingSteps[1].status = "error"
    /\ client.processingSteps[2].status = "processing"

\* C25 (what holds): the step set to "error" is the one whose index was in
\* currentStep in the render whose button was clicked, and no other step
\* changes
ErrorMarksStepAtClick ==
    RunFailed =>
       \A index \in 1..Len(client.processingSteps) :
          IF index - 1 = client.run.currentStep
          THEN client.processingSteps[index].status = "error"
          ELSE client.processingSteps[index] = client.run.stepsAtThrow[index]


\* every outbound call of the pages eventually returns or fails, and every
\* timer fires; the clicks of the user are not forced
OutboundCallsReturn ==
    /\ WF_vars(UploadAnswers)
    /\ WF_vars(SummaryAnswers)
    /\ WF_vars(QuestionsAnswer)
    /\ WF_vars(ChatAnswers)
    /\ WF_vars(DelayElapses)
    /\ WF_vars(FormatAnswers)
    /\ WF_vars(SegmentationAnswers)
    /\ WF_vars(WallAnalyzeAnswers)
    /\ WF_vars(WallJsonParsed)

SpecClientFair == ClientInit /\ [][ClientNext]_vars /\ OutboundCallsReturn

\* a run has been started and has not ended
RunUnderWay == client.pc = "mounted" /\ client.run.pc \notin {"none", "ended"}

\* the run has ended and both flags are reset
RunEndedFlagsReset ==
    /\ client.run.pc = "ended"
    /\ ~client.isProcessing
    /\ ~client.isAnalyzingWalls

StepLeftProcessing ==
    \E index \in 1..Len(client.processingSteps) :
       client.processingSteps[index].status = "processing"

\* C26: every started run eventually ends with isProcessing and
\* isAnalyzingWalls reset to false, on the success path and on every failure
\* path, and after a run has ended no step is left "processing"
C26_RunEndsAndNoStepProcessing ==
    /\ RunUnderWay ~> RunEndedFlagsReset
    /\ [](client.pc = "mounted" /\ client.run.pc = "ended" => ~StepLeftProcessing)

\* C26 (case reached): a run has ended in its catch block with both flags
\* reset, and the step that was processing when it failed still is
RunEndedWithStepProcessing ==
    /\ RunFailed
    /\ RunEndedFlagsReset
    /\ \E index \in 1..Len(client.processingSteps) :
          /\ client.run.stepsAtThrow[index].status = "processing"
          /\ client.processingSteps[index].status = "processing"

\* C26 (what holds): every started run eventually ends, and whenever no run
\* is under way both flags are false; a run that ended without failure
\* leaves no step processing
RunEndsWithFlagsReset ==
    /\ RunUnderWay ~> RunEndedFlagsReset
    /\ [](client.pc = "mounted" =>
            /\ RunUnderWay <=> client.isProcessing
            /\ client.isAnalyzingWalls => client.isProcessing
            /\ (client.run.pc = "ended" /\ client.run.result = "completed")
                  => ~StepLeftProcessing)


\* ------------------------------------------------------------------------
\* Claims about the answers of analyzeWithQuestions (SpecClient)
\* ------------------------------------------------------------------------

\* analyzeWithQuestions of the run has returned: formatFinalResult has sent
\* its request
AnalysisReturned ==
    /\ client.pc = "mounted"
    /\ \E p \in 1..Len(client.sent) : client.sent[p].kind = "format"

\* the outcome of the chat request of the question at position i
ChatOutcomeOf(i) ==
    LET p == CHOOSE q \in 1..Len(client.sent) :
                client.sent[q].kind = "chat" /\ client.sent[q].i = i
    IN client.sent[p].outcome

\* answer is what an outcome of a chat request leaves in the answer list:
\* the content answered, "No answer available" for an answer without
\* content, or the placeholder of a failed request
OutcomeLeaves(o, answer) ==
    IF o.k = "rejected" THEN answer = "Error processing this question"
    ELSE IF o.ok /\ Truthy(o.data.content) THEN answer = o.data.content.s
    ELSE answer \in {"No answer available", "Error processing this question"}

\* C27: whenever analyzeWithQuestions returns, the answer list has as many
\* entries as the question list, entry i is the outcome of the chat request
\* of question i, and the pairs sent to formatting are aligned
C27_AnswersAligned ==
    AnalysisReturned =>
       /\ Len(client.run.answers) = Len(client.run.questions)
       /\ Len(client.run.qaData) = Len(client.run.questions)
       /\ \A i \in 1..Len(client.run.questions) :
             /\ \E q \in 1..Len(client.sent) :
                   /\ client.sent[q].kind = "chat"
                   /\ client.sent[q].i = i
                   /\ client.sent[q].query = client.run.questions[i]
             /\ OutcomeLeaves(ChatOutcomeOf(i), client.run.answers[i])
             /\ client.run.qaData[i] = [question |-> client.run.questions[i],
                                        answer |-> client.run.answers[i]]

\* C27 (case reached): the upload page has sent two pairs to formatting; the
\* request of the first question failed and that of the second was
\* answered
PlaceholderThenAnswerSent ==
    /\ AnalysisReturned
    /\ client.page = "upload"
    /\ Len(client.run.questions) = 2
    /\ ChatOutcomeOf(1).k = "rejected"
    /\ ChatOutcomeOf(2).k = "answered"
    /\ ChatOutcomeOf(2).ok
    /\ client.run.qaData = << [question |-> QuestionText(1),
                               answer |-> "Error processing this question"],
                              [question |-> QuestionText(2),
                               answer |-> "The wall is 3 m long"] >>


\* ------------------------------------------------------------------------
\* Claims about rejected uploads (SpecSession)
\* ------------------------------------------------------------------------

\* request r is an upload
IsUpload(r) == requests[r].req.action = Null /\ requests[r].req.payload.k = "form"

\* C28: no step of an upload that is rejected changes the session store:
\* every step of an upload request other than the one that answers it with
\* success leaves sessions as it was
C28_RejectedUploadLeavesStore ==
    [][\A r \in 1..Len(requests) :
          (/\ IsUpload(r)
           /\ requests'[r] # requests[r]
           /\ ~(requests'[r].pc = "done" /\ requests'[r].response.status = 200))
          => sessions' = sessions]_vars

\* an upload answered with the error `message`, all its steps taken
UploadRejectedWith(message) ==
    \E r \in 1..Len(requests) :
       /\ IsUpload(r)
       /\ requests[r].pc = "done"
       /\ requests[r].response.status # 200
       /\ requests[r].response.body.error = message

\* C28 (case reached): an upload was rejected for an unsupported extension
\* and one for several files with a video, the latter after both its files
\* were uploaded, and the store holds the session of the accepted upload
\* and nothing else
UploadsRejectedStoreKept ==
    /\ UploadRejectedWith("Error: c.gif format is not supported")
    /\ UploadRejectedWith("Error: Only a single video is supported.")
    /\ \E r \in 1..Len(requests) :
          /\ IsUpload(r)
          /\ requests[r].pc = "done"
          /\ requests[r].response.status = 200
          /\ DOMAIN sessions = {requests[r].response.body.sessionId}
          /\ sessions[requests[r].response.body.sessionId].assetList
                = requests[r].loc.assetList

\* C28 (case reached): an upload without files was rejected and the store
\* holds no session
EmptyUploadRejectedStoreEmpty ==
    /\ UploadRejectedWith("No media files provided")
    /\ sessions = NoSessions


\* ------------------------------------------------------------------------
\* Claims about the names of the extracted materials (SpecExtract)
\* ------------------------------------------------------------------------

\* C29: every material extractMaterialsFromText returns has a non-empty
\* name; a line whose captured name is empty after cleaning yields none
C29_NamesNonEmpty ==
    extracted.k = "returned" =>
       \A i \in 1..Len(extracted.v) : extracted.v[i].name # ""

\* C29 (case reached): the line "5:5 a" has yielded a material named ""
EmptyNameReturned ==
    /\ extracted.k = "returned"
    /\ text = << "5:5 a" >>
    /\ Len(extracted.v) = 1
    /\ extracted.v[1].name = ""

\* C29 (what holds): the name captured from the line, before cleaning, is
\* not empty for any material pushed, and the name pushed is that name
\* cleaned
PushedNameIsCleanedCapture ==
    \A i \in 1..Len(lineLog.pushed) :
       \E len \in 1..Len(lineLog.line), from \in 1..Len(lineLog.line) :
          /\ from + len - 1 <= Len(lineLog.line)
          /\ lineLog.pushed[i].name
                = cleanMaterialName(SubSeq(lineLog.line, from, from + len - 1))


\* ------------------------------------------------------------------------
\* Claims about the stored analyses of the upload page (SpecClient)
\* ------------------------------------------------------------------------

\* this step ends the run of the upload page
UploadRunEnds ==
    /\ client.pc = "mounted"
    /\ client.page = "upload"
    /\ client.run.pc \notin {"none", "ended"}
    /\ client'.run.pc = "ended"

\* this step appends one record, that of the run's file and final result,
\* and keeps the earlier records as they were and in their order
AppendsOneRecord ==
    /\ Len(client'.analyses) = Len(client.analyses) + 1
    /\ SubSeq(client'.analyses, 1, Len(client.analyses)) = client.analyses
    /\ client'.analyses[Len(client'.analyses)].result = client'.finalResult
    /\ client'.analyses[Len(client'.analyses)].fileName = client.uploadedFile.name

\* C30: on the upload page a run that reaches its final result appends
\* exactly one record to the stored analyses and keeps the earlier records
\* unchanged and in order, and no other step changes the stored analyses
C30_OneRecordPerFinalResult ==
    [][(client.pc = "mounted" /\ client.page = "upload") =>
          IF UploadRunEnds /\ client'.run.reached
          THEN AppendsOneRecord
          ELSE client'.analyses = client.analyses]_vars

\* C30 (case reached): a run of the upload page has set its final result
\* and ended in the catch block, and the stored analyses hold no record
FinalResultNotStored ==
    /\ client.pc = "mounted"
    /\ client.page = "upload"
    /\ client.runs = 1
    /\ client.run.pc = "ended"
    /\ client.run.reached
    /\ client.finalResult # ""
    /\ client.run.error.name = "QuotaExceededError"
    /\ client.analyses = <<>>

\* C30 (what holds): a run that leaves its try block without an exception
\* appends exactly one record and keeps the earlier ones, and no other step
\* changes the stored analyses
OneRecordPerCompletedRun ==
    [][(client.pc = "mounted" /\ client.page = "upload") =>
          IF UploadRunEnds /\ client'.run.result = "completed"
          THEN AppendsOneRecord
          ELSE client'.analyses = client.analyses]_vars

\* C30 (case reached): two runs have completed and the stored analyses hold
\* their two records in the order of the runs
TwoRecordsStored ==
    /\ client.pc = "mounted"
    /\ client.page = "upload"
    /\ client.runs = 2
    /\ client.run.result = "completed"
    /\ Len(client.analyses) = 2

====
